---- MODULE Spec2Model ----
(***************************************************************************)
(* A model of word_server.py: the document tools of the Word MCP server.   *)
(*                                                                         *)
(* One document file is modelled.  Every tool loads the package from the   *)
(* file, edits the loaded tree in memory and, on its success paths, saves  *)
(* the tree back; an early return drops the in-memory edits.  The state is *)
(* therefore the document held by the file, and one action is one whole    *)
(* tool call.                                                              *)
(*                                                                         *)
(* Texts are sequences of one-character strings.  Python's None, True and  *)
(* False are the strings "None", "True" and "False"; a Python str argument *)
(* is written with its quotes, e.g. "'true'".                              *)
(***************************************************************************)
EXTENDS Integers, Sequences, FiniteSets, TLC

VARIABLES
    exists,     \* os.path.exists(filename)
    writable,   \* what check_file_writeable(filename) reports
    doc,        \* the document the file holds (meaningful when exists)
    last        \* the last tool call: its name, arguments, reply, count, and
                \* whether it reached doc.save

vars == <<exists, writable, doc, last>>

(***************************************************************************)
(* Bounds of the model.                                                    *)
(***************************************************************************)
\* paragraphs in the body, in the specifications of the body tools
MaxParas == 3
\* paragraphs in the body, in the specification of all tools
MaxParasAll == 1
\* runs a paragraph may hold when format_text is called on it
MaxRuns == 3
\* tables in the body
MaxTables == 1
\* tables in a document of the table specifications
MaxTablesGrid == 2
\* edge elements a cell's w:tcBorders may hold when format_table is called
MaxEdges == 4
\* w:shd elements a cell may hold when format_table is called
MaxShd == 1
\* characters a run may hold after search_and_replace
MaxTextLen == 19

(***************************************************************************)
(* Text helpers (Python str semantics).                                    *)
(***************************************************************************)
\* s[a:b] for 0 <= a <= b <= len(s), 0-based half-open as in Python
Slice(s, a, b) ==
    SubSeq(s, a + 1, b)

\* old in s
Contains(s, old) ==
    \E k \in 0..(Len(s) - Len(old)) : Slice(s, k, k + Len(old)) = old

RECURSIVE ReplaceFrom(_, _, _)
\* s.replace(old, new) for non-empty old: leftmost, non-overlapping
ReplaceFrom(s, old, new) ==
    IF Len(s) < Len(old) THEN s
    ELSE IF Slice(s, 0, Len(old)) = old
         THEN new \o ReplaceFrom(Slice(s, Len(old), Len(s)), old, new)
         ELSE <<Head(s)>> \o ReplaceFrom(Tail(s), old, new)

RECURSIVE Interleave(_, _)
\* s.replace("", new): new before every character and at the end
Interleave(s, new) ==
    IF s = <<>> THEN new
    ELSE new \o <<Head(s)>> \o Interleave(Tail(s), new)

\* a mutant of StrReplace: only the first occurrence is replaced
StrReplaceFirstOnly(s, old, new) ==
    IF old = <<>> THEN new \o s
    ELSE IF ~Contains(s, old) THEN s
    ELSE LET k == CHOOSE i \in 0..(Len(s) - Len(old)) :
                      /\ Slice(s, i, i + Len(old)) = old
                      /\ \A j \in 0..(i - 1) : Slice(s, j, j + Len(old)) # old
         IN  Slice(s, 0, k) \o new \o Slice(s, k + Len(old), Len(s))

\* str.replace(old, new)
StrReplace(s, old, new) ==
    IF old = <<>> THEN Interleave(s, new) ELSE ReplaceFrom(s, old, new)

(***************************************************************************)
(* Runs and paragraphs.                                                    *)
(***************************************************************************)
\* a run's direct formatting; "None" is "inherit from the style"
NoFmt ==
    [bold |-> "None", italic |-> "None", underline |-> "None",
     color |-> "None", size |-> 0, font |-> "None"]

\* paragraph.add_run(text): a new run element without run properties
NewRun(text) ==
    [text |-> text, fmt |-> NoFmt]

\* a mutant of ClearRun: the run keeps its text
ClearRunKeepsText(run) ==
    run

\* run.clear(): the run's content is removed, the run and its formatting stay
ClearRun(run) ==
    [run EXCEPT !.text = <<>>]

RECURSIVE JoinRuns(_)
\* "".join(run.text for run in runs)
JoinRuns(runs) ==
    IF runs = <<>> THEN <<>> ELSE Head(runs).text \o JoinRuns(Tail(runs))

\* paragraph.text
ParaText(p) ==
    JoinRuns(p.runs)

\* document.add_paragraph(text): one run when text is non-empty, no pStyle,
\* no alignment
NewPara(text) ==
    [runs |-> IF text = <<>> THEN <<>> ELSE <<NewRun(text)>>,
     style |-> "", align |-> "None"]

(***************************************************************************)
(* The style part.  A style is                                             *)
(*   [name, id, type, base, font, custom, default]                         *)
(* where base is the style id its w:basedOn names ("" when it has none)    *)
(* and default marks the default style of its type.                        *)
(* doc.styles is the sequence of the part's style elements.                *)
(***************************************************************************)
\* range(1, 10) in ensure_heading_style: heading levels 1..HeadingLevels
HeadingLevels == 9

\* f'Heading {i}'
HeadingName(i) ==
    "Heading " \o ToString(i)

\* the style names the model's calls and documents use
StyleNames ==
    {HeadingName(i) : i \in 1..HeadingLevels} \cup
    {"Normal", "Title", "Default Paragraph Font", "Normal Table", "Table Grid",
     "Emphasis", "My Style", "MyStyle", "Quote"}

\* the library's styleId_from_name: the name without its spaces
StyleIdFromName(name) ==
    CASE name \in {HeadingName(i) : i \in 1..HeadingLevels} ->
            "Heading" \o ToString(CHOOSE i \in 1..HeadingLevels : HeadingName(i) = name)
      [] name = "Default Paragraph Font" -> "DefaultParagraphFont"
      [] name = "Normal Table" -> "NormalTable"
      [] name = "Table Grid" -> "TableGrid"
      [] name = "My Style" -> "MyStyle"
      [] OTHER -> name

\* str.lower() on the style names and identifiers of the model
Lower(s) ==
    CASE s \in {"Emphasis", "EMPHASIS"} -> "emphasis"
      [] s \in {"Normal", "NORMAL"} -> "normal"
      [] s = "Quote" -> "quote"
      [] s = "Title" -> "title"
      [] s \in {"heading2", "HEADING2"} -> "heading2"
      [] s = "My Style" -> "my style"
      [] s = "MyStyle" -> "mystyle"
      [] s = "Table Grid" -> "table grid"
      [] s = "TableGrid" -> "tablegrid"
      [] s = "Normal Table" -> "normal table"
      [] s = "NormalTable" -> "normaltable"
      [] s = "Default Paragraph Font" -> "default paragraph font"
      [] s = "DefaultParagraphFont" -> "defaultparagraphfont"
      [] s \in {HeadingName(i) : i \in 1..HeadingLevels} ->
            "heading " \o ToString(CHOOSE i \in 1..HeadingLevels : HeadingName(i) = s)
      [] s \in {"Heading" \o ToString(i) : i \in 1..HeadingLevels} ->
            "heading" \o ToString(CHOOSE i \in 1..HeadingLevels : "Heading" \o ToString(i) = s)
      [] OTHER -> s

\* doc.styles[key]: the first style with that name, else the first style
\* with that identifier; 0 stands for KeyError
StyleIndex(styles, key) ==
    IF \E i \in 1..Len(styles) : styles[i].name = key
    THEN CHOOSE i \in 1..Len(styles) :
            /\ styles[i].name = key
            /\ \A j \in 1..(i - 1) : styles[j].name # key
    ELSE IF \E i \in 1..Len(styles) : styles[i].id = key
    THEN CHOOSE i \in 1..Len(styles) :
            /\ styles[i].id = key
            /\ \A j \in 1..(i - 1) : styles[j].id # key
    ELSE 0

\* styles.add_style(name, style_type): a new custom style at the end
AddStyle(styles, name, type) ==
    Append(styles, [name |-> name, id |-> StyleIdFromName(name), type |-> type,
                    base |-> "", font |-> NoFmt, custom |-> TRUE,
                    default |-> FALSE])

\* a mutant of HeadingFont: every created heading style gets 12pt
HeadingFontFlat(i) ==
    [NoFmt EXCEPT !.bold = "True", !.size = 12]

\* the fonts ensure_heading_style gives the styles it creates
HeadingFont(i) ==
    [NoFmt EXCEPT !.bold = "True",
                  !.size = IF i = 1 THEN 16 ELSE IF i = 2 THEN 14 ELSE 12]

\* a mutant of EnsureOne: the style is (re)written whether or not it exists
EnsureOneOverwrite(styles, i) ==
    LET k == StyleIndex(styles, HeadingName(i))
    IN  IF k = 0
        THEN LET added == AddStyle(styles, HeadingName(i), "paragraph")
             IN  [added EXCEPT ![Len(added)].font = HeadingFont(i)]
        ELSE [styles EXCEPT ![k].font = HeadingFont(i)]

\* a mutant of EnsureOne: the style is added without looking for its name
EnsureOneNoCheck(styles, i) ==
    LET added == AddStyle(styles, HeadingName(i), "paragraph")
    IN  [added EXCEPT ![Len(added)].font = HeadingFont(i)]

\* one iteration of ensure_heading_style's loop
EnsureOne(styles, i) ==
    IF StyleIndex(styles, HeadingName(i)) # 0 THEN styles
    ELSE LET added == AddStyle(styles, HeadingName(i), "paragraph")
         IN  [added EXCEPT ![Len(added)].font = HeadingFont(i)]

RECURSIVE EnsureUpTo(_, _)
\* ensure_heading_style's loop over levels 1..n
EnsureUpTo(styles, n) ==
    IF n = 0 THEN styles ELSE EnsureOne(EnsureUpTo(styles, n - 1), n)

\* ensure_heading_style(doc)
EnsureHeadingStyle(d) ==
    [d EXCEPT !.styles = EnsureUpTo(d.styles, HeadingLevels)]

(***************************************************************************)
(* Argument conversions of the tools.                                      *)
(***************************************************************************)
\* str arguments whose lower() is 'true' / 'false'
StrTrue == {"'true'", "'True'", "'TRUE'"}
StrFalse == {"'false'", "'False'", "'FALSE'"}
\* str arguments that are neither
StrOther == {"'yes'", "'1'", "''"}

\* the bold / italic / underline conversion: None leaves the attribute as it
\* is, a str is compared in lower case, anything else goes through bool()
BoolArg(cur, v) ==
    CASE v = "None" -> cur
      [] v \in StrTrue -> "True"
      [] v \in StrFalse -> "False"
      [] v \in StrOther -> cur
      [] v = "True" -> "True"
      [] OTHER -> "False"

\* color_map: the closed set of colour names and their RGB values, looked up
\* in lower case; "None" when the name is not in the map
ColorMap(v) ==
    CASE v \in {"'red'", "'RED'", "'Red'"} -> "FF0000"
      [] v \in {"'blue'", "'Blue'"} -> "0000FF"
      [] v \in {"'green'"} -> "008000"
      [] v \in {"'yellow'"} -> "FFFF00"
      [] v \in {"'black'"} -> "000000"
      [] v \in {"'white'"} -> "FFFFFF"
      [] OTHER -> "None"

\* the run colour after "if color:": a mapped name sets the RGB value, any
\* other value (no name of index_color_map is outside color_map) sets nothing
ColorArg(cur, v) ==
    IF v \in {"None", "''"} \/ ColorMap(v) = "None" THEN cur ELSE ColorMap(v)

\* int(font_size) under "if font_size:"; 0 when the size is not set (None, 0,
\* '' or a str int() rejects)
FontSizeArg(cur, v) ==
    CASE v = "12" -> 12
      [] v = "'14'" -> 14
      [] v = "20" -> 20
      [] OTHER -> cur

\* str(font_name) under "if font_name:"
FontNameArg(cur, v) ==
    IF v \in {"None", "''"} THEN cur ELSE v

\* no formatting argument given
NoAttrs ==
    [bold |-> "None", italic |-> "None", underline |-> "None",
     color |-> "None", font_size |-> "None", font_name |-> "None"]

\* the formatting format_text puts on the target run
TargetFmt(attrs) ==
    [bold |-> BoolArg("None", attrs.bold),
     italic |-> BoolArg("None", attrs.italic),
     underline |-> BoolArg("None", attrs.underline),
     color |-> ColorArg("None", attrs.color),
     size |-> FontSizeArg(0, attrs.font_size),
     font |-> FontNameArg("None", attrs.font_name)]

\* alignment_map, looked up with alignment.lower(); "None" when not a key
AlignmentMap(v) ==
    CASE v \in {"left", "LEFT"} -> "left"
      [] v \in {"center", "Center", "CENTER"} -> "center"
      [] v \in {"right"} -> "right"
      [] v \in {"justify", "JUSTIFY"} -> "justify"
      [] OTHER -> "None"

(***************************************************************************)
(* format_text                                                             *)
(***************************************************************************)
\* a mutant of ValidPositions: an empty range (start = end) is let through
ValidPositionsAllowEmpty(text, start_pos, end_pos) ==
    ~(start_pos < 0 \/ end_pos > Len(text) \/ start_pos > end_pos)

\* the negation of "start_pos < 0 or end_pos > len(text) or start_pos >= end_pos"
ValidPositions(text, start_pos, end_pos) ==
    ~(start_pos < 0 \/ end_pos > Len(text) \/ start_pos >= end_pos)

\* a mutant of AfterRun: the text after the target starts one character late
AfterRunSkipsOne(text, end_pos) ==
    IF end_pos < Len(text) THEN <<NewRun(Slice(text, end_pos + 1, Len(text)))>> ELSE <<>>

\* "if end_pos < len(text): paragraph.add_run(text[end_pos:])"
AfterRun(text, end_pos) ==
    IF end_pos < Len(text) THEN <<NewRun(Slice(text, end_pos, Len(text)))>> ELSE <<>>

\* "if start_pos > 0: paragraph.add_run(text[:start_pos])"
BeforeRun(text, start_pos) ==
    IF start_pos > 0 THEN <<NewRun(Slice(text, 0, start_pos))>> ELSE <<>>

\* the paragraph's runs after the split: every existing run cleared and left
\* in place, then the new runs before / target / after appended
FormatRuns(runs, start_pos, end_pos, attrs) ==
    LET text == JoinRuns(runs)
    IN  [i \in 1..Len(runs) |-> ClearRun(runs[i])]
        \o BeforeRun(text, start_pos)
        \o <<[text |-> Slice(text, start_pos, end_pos), fmt |-> TargetFmt(attrs)]>>
        \o AfterRun(text, end_pos)

\* a mutant of ValidIndex: the last index + 1 is accepted
ValidIndexOffByOne(n, index) ==
    ~(index < 0 \/ index > n)

\* the negation of "paragraph_index < 0 or paragraph_index >= len(doc.paragraphs)"
ValidIndex(n, index) ==
    ~(index < 0 \/ index >= n)

\* the reply and the saved document of format_text, the pre-checks passed
FormatTextOut(d, a) ==
    IF ~a.numeric
    THEN [result |-> "NotInteger", doc |-> d, ret |-> 0, saved |-> FALSE]
    ELSE IF ~ValidIndex(Len(d.paras), a.paragraph_index)
    THEN [result |-> "InvalidIndex", doc |-> d, ret |-> 0, saved |-> FALSE]
    ELSE LET p == d.paras[a.paragraph_index + 1]
         IN  IF ~ValidPositions(ParaText(p), a.start_pos, a.end_pos)
             THEN [result |-> "InvalidRange", doc |-> d, ret |-> 0, saved |-> FALSE]
             ELSE [result |-> "ok", ret |-> 0, saved |-> TRUE,
                   doc |-> [d EXCEPT !.paras[a.paragraph_index + 1].runs =
                               FormatRuns(p.runs, a.start_pos, a.end_pos, a.attrs)]]

(***************************************************************************)
(* find_and_replace_text / search_and_replace                              *)
(***************************************************************************)
\* a mutant of RunMatches: the run is matched against the paragraph's text
RunMatchesParagraph(ptext, run, old_text) ==
    Contains(ptext, old_text)

\* "if old_text in run.text" (ptext is the text of the run's paragraph)
RunMatches(ptext, run, old_text) ==
    Contains(run.text, old_text)

\* the inner loop over one paragraph's runs, under "if old_text in para.text"
ReplaceInRuns(runs, old_text, new_text) ==
    LET ptext == JoinRuns(runs)
    IN  IF Contains(ptext, old_text)
        THEN [i \in 1..Len(runs) |->
                IF RunMatches(ptext, runs[i], old_text)
                THEN [runs[i] EXCEPT !.text = StrReplace(@, old_text, new_text)]
                ELSE runs[i]]
        ELSE runs

RECURSIVE Occurrences(_, _)
\* the number of leftmost non-overlapping occurrences of old in s
Occurrences(s, old) ==
    IF old = <<>> \/ Len(s) < Len(old) THEN 0
    ELSE IF Slice(s, 0, Len(old)) = old
         THEN 1 + Occurrences(Slice(s, Len(old), Len(s)), old)
         ELSE Occurrences(Tail(s), old)

RECURSIVE SumOccurrences(_, _)
\* the occurrences of old_text in the runs of one paragraph
SumOccurrences(runs, old_text) ==
    IF runs = <<>> THEN 0
    ELSE Occurrences(Head(runs).text, old_text) + SumOccurrences(Tail(runs), old_text)

\* a mutant of CountInRuns: every occurrence is counted
CountOccurrences(runs, old_text) ==
    SumOccurrences(runs, old_text)

\* what one paragraph adds to count: 1 for each run rewritten
CountInRuns(runs, old_text) ==
    LET ptext == JoinRuns(runs)
    IN  IF Contains(ptext, old_text)
        THEN Cardinality({i \in 1..Len(runs) : RunMatches(ptext, runs[i], old_text)})
        ELSE 0

RECURSIVE SumOver(_, _, _)
\* count over a sequence of paragraphs
SumOver(paras, k, old_text) ==
    IF k = 0 THEN 0
    ELSE SumOver(paras, k - 1, old_text) + CountInRuns(paras[k].runs, old_text)

\* the paragraphs of a sequence after the replacement
ReplaceInParas(paras, old_text, new_text) ==
    [k \in 1..Len(paras) |->
        [paras[k] EXCEPT !.runs = ReplaceInRuns(@, old_text, new_text)]]

\* a table's cells in the order "for row in table.rows: for cell in row.cells"
CellOrder(t) ==
    [n \in 1..(t.rows * t.cols) |-> <<((n - 1) \div t.cols) + 1, ((n - 1) % t.cols) + 1>>]

RECURSIVE SumCells(_, _, _)
\* count over the first n cells of a table
SumCells(t, n, old_text) ==
    IF n = 0 THEN 0
    ELSE SumCells(t, n - 1, old_text)
         + SumOver(t.cells[CellOrder(t)[n]].paras,
                   Len(t.cells[CellOrder(t)[n]].paras), old_text)

RECURSIVE SumTables(_, _, _)
\* count over the first n tables
SumTables(tables, n, old_text) ==
    IF n = 0 THEN 0
    ELSE SumTables(tables, n - 1, old_text)
         + SumCells(tables[n], tables[n].rows * tables[n].cols, old_text)

\* a mutant of ReplaceInTables: table cells are not scanned
ReplaceInTablesSkipped(tables, old_text, new_text) ==
    tables

\* the loop over doc.tables
ReplaceInTables(tables, old_text, new_text) ==
    [n \in 1..Len(tables) |->
        [tables[n] EXCEPT !.cells =
            [rc \in DOMAIN tables[n].cells |->
                [tables[n].cells[rc] EXCEPT
                    !.paras = ReplaceInParas(@, old_text, new_text)]]]]

\* find_and_replace_text(doc, old_text, new_text): the document and the count
FindAndReplaceText(d, old_text, new_text) ==
    [doc |-> [d EXCEPT !.paras = ReplaceInParas(@, old_text, new_text),
                       !.tables = ReplaceInTables(@, old_text, new_text)],
     count |-> SumOver(d.paras, Len(d.paras), old_text)
               + SumTables(d.tables, Len(d.tables), old_text)]

\* the reply and the saved document of search_and_replace: the document is
\* saved only when count > 0
SearchAndReplaceOut(d, a) ==
    LET r == FindAndReplaceText(d, a.find_text, a.replace_text)
    IN  IF r.count > 0
        THEN [result |-> "ok", doc |-> r.doc, ret |-> r.count, saved |-> TRUE]
        ELSE [result |-> "none", doc |-> d, ret |-> 0, saved |-> FALSE]

(***************************************************************************)
(* delete_paragraph                                                        *)
(***************************************************************************)
\* a mutant of RemoveAt: the paragraph after the indexed one is removed
RemoveAtNext(paras, index) ==
    IF index + 2 <= Len(paras)
    THEN SubSeq(paras, 1, index + 1) \o SubSeq(paras, index + 3, Len(paras))
    ELSE SubSeq(paras, 1, index)

\* p.getparent().remove(p) for p = doc.paragraphs[index]
RemoveAt(paras, index) ==
    SubSeq(paras, 1, index) \o SubSeq(paras, index + 2, Len(paras))

\* the reply and the saved document of delete_paragraph
\* a mutant of DeleteParagraphOut: the element after the paragraph goes too
DeleteParagraphAndTable(d, a) ==
    IF ~ValidIndex(Len(d.paras), a.paragraph_index)
    THEN [result |-> "InvalidIndex", doc |-> d, ret |-> 0, saved |-> FALSE]
    ELSE [result |-> "ok", ret |-> 0, saved |-> TRUE,
          doc |-> [d EXCEPT !.paras = RemoveAt(@, a.paragraph_index),
                            !.tables = IF @ = <<>> THEN @
                                       ELSE SubSeq(@, 1, Len(@) - 1)]]

DeleteParagraphOut(d, a) ==
    IF ~ValidIndex(Len(d.paras), a.paragraph_index)
    THEN [result |-> "InvalidIndex", doc |-> d, ret |-> 0, saved |-> FALSE]
    ELSE [result |-> "ok", ret |-> 0, saved |-> TRUE,
          doc |-> [d EXCEPT !.paras = RemoveAt(@, a.paragraph_index)]]

(***************************************************************************)
(* set_paragraph_alignment                                                 *)
(***************************************************************************)
\* a mutant of SetParagraphAlignmentOut: an unknown alignment becomes left
SetParagraphAlignmentDefaultsLeft(d, a) ==
    IF ~ValidIndex(Len(d.paras), a.paragraph_index)
    THEN [result |-> "InvalidIndex", doc |-> d, ret |-> 0, saved |-> FALSE]
    ELSE [result |-> "ok", ret |-> 0, saved |-> TRUE,
          doc |-> [d EXCEPT !.paras[a.paragraph_index + 1].align =
                                IF AlignmentMap(a.alignment) = "None" THEN "left"
                                ELSE AlignmentMap(a.alignment)]]

\* the reply and the saved document of set_paragraph_alignment
SetParagraphAlignmentOut(d, a) ==
    IF ~ValidIndex(Len(d.paras), a.paragraph_index)
    THEN [result |-> "InvalidIndex", doc |-> d, ret |-> 0, saved |-> FALSE]
    ELSE IF AlignmentMap(a.alignment) = "None"
    THEN [result |-> "InvalidAlignment", doc |-> d, ret |-> 0, saved |-> FALSE]
    ELSE [result |-> "ok", ret |-> 0, saved |-> TRUE,
          doc |-> [d EXCEPT !.paras[a.paragraph_index + 1].align =
                                AlignmentMap(a.alignment)]]

(***************************************************************************)
(* Assigning a style to a paragraph or a table.                            *)
(***************************************************************************)
\* "paragraph.style = style" / "table.style = style": the library refuses a
\* style of another type (ValueError) and stores no reference for the
\* default style of the type
StyleRef(style, type) ==
    IF style.type # type THEN [ok |-> FALSE, id |-> ""]
    ELSE IF style.default THEN [ok |-> TRUE, id |-> ""]
    ELSE [ok |-> TRUE, id |-> style.id]

\* the first style of "for s in doc.styles" whose name or identifier equals
\* the wanted one in lower case; 0 when there is none
StyleIndexLower(styles, key) ==
    LET hit(i) == Lower(styles[i].name) = Lower(key) \/ Lower(styles[i].id) = Lower(key)
    IN  IF \E i \in 1..Len(styles) : hit(i)
        THEN CHOOSE i \in 1..Len(styles) : hit(i) /\ \A j \in 1..(i - 1) : ~hit(j)
        ELSE 0

(***************************************************************************)
(* add_paragraph                                                           *)
(***************************************************************************)
\* the paragraph with alignment applied: "if alignment:" and a key of the map
WithAlignment(p, alignment) ==
    IF AlignmentMap(alignment) # "None" THEN [p EXCEPT !.align = AlignmentMap(alignment)]
    ELSE p

\* a mutant of NormalFallback: the call fails instead of falling back
NormalFallbackFails(d, p, result) ==
    [result |-> "failed", doc |-> d, ret |-> 0, saved |-> FALSE]

\* "paragraph.style = doc.styles['Normal']; doc.save(filename)" of the two
\* fallback branches; a KeyError or ValueError there reaches the outer handler
NormalFallback(d, p, result) ==
    LET n == StyleIndex(d.styles, "Normal")
    IN  IF n = 0 \/ ~StyleRef(d.styles[IF n = 0 THEN 1 ELSE n], "paragraph").ok
        THEN [result |-> "failed", doc |-> d, ret |-> 0, saved |-> FALSE]
        ELSE [result |-> result, ret |-> 0, saved |-> TRUE,
              doc |-> [d EXCEPT !.paras = Append(@,
                         [p EXCEPT !.style = StyleRef(d.styles[n], "paragraph").id])]]

\* a mutant of AddParagraphOut: the alignment is set before the style
AddParagraphAlignsFirst(d, a) ==
    LET p == WithAlignment(NewPara(a.text), a.alignment)
        k == StyleIndex(d.styles, a.style)
        c == IF k # 0 THEN k ELSE StyleIndexLower(d.styles, a.style)
    IN  IF a.style \in {"None", ""}
        THEN [result |-> "ok", ret |-> 0, saved |-> TRUE,
              doc |-> [d EXCEPT !.paras = Append(@, p)]]
        ELSE IF c = 0
        THEN NormalFallback(d, p, "StyleNotFound")
        ELSE IF ~StyleRef(d.styles[c], "paragraph").ok
        THEN NormalFallback(d, p, "StyleError")
        ELSE [result |-> "ok", ret |-> 0, saved |-> TRUE,
              doc |-> [d EXCEPT !.paras = Append(@,
                         [p EXCEPT !.style = StyleRef(d.styles[c], "paragraph").id])]]

\* the reply and the saved document of add_paragraph
AddParagraphOut(d, a) ==
    LET p == NewPara(a.text)
        k == StyleIndex(d.styles, a.style)
        c == IF k # 0 THEN k ELSE StyleIndexLower(d.styles, a.style)
    IN  IF a.style \in {"None", ""}
        THEN [result |-> "ok", ret |-> 0, saved |-> TRUE,
              doc |-> [d EXCEPT !.paras = Append(@, WithAlignment(p, a.alignment))]]
        ELSE IF c = 0
        THEN NormalFallback(d, p, "StyleNotFound")
        ELSE IF ~StyleRef(d.styles[c], "paragraph").ok
        THEN NormalFallback(d, p, "StyleError")
        ELSE [result |-> "ok", ret |-> 0, saved |-> TRUE,
              doc |-> [d EXCEPT !.paras = Append(@,
                         WithAlignment([p EXCEPT !.style =
                                            StyleRef(d.styles[c], "paragraph").id],
                                       a.alignment))]]

(***************************************************************************)
(* create_style / create_custom_style                                      *)
(***************************************************************************)
\* font_properties of create_custom_style: a key is present when its value
\* here is not "None" (size: not 0)
FontProperties(a) ==
    [bold |-> BoolArg("None", a.bold),
     italic |-> BoolArg("None", a.italic),
     size |-> FontSizeArg(0, a.font_size),
     name |-> IF a.font_name = "None" THEN "None" ELSE a.font_name,
     color |-> a.color]

\* the font of a new style after "if font_properties:"
StyleFont(fp) ==
    [bold |-> fp.bold, italic |-> fp.italic, underline |-> "None",
     color |-> ColorMap(fp.color), size |-> fp.size, font |-> fp.name]

\* a mutant of BaseStyleId: an unresolved base style leaves the style
\* without a base
BaseStyleIdNoFallback(styles, base_style) ==
    LET b == StyleIndex(styles, base_style)
    IN  IF b # 0 THEN [ok |-> TRUE, id |-> styles[b].id] ELSE [ok |-> TRUE, id |-> ""]

\* "new_style.base_style = doc.styles[base_style]", with doc.styles['Normal']
\* on KeyError; not ok when 'Normal' does not resolve either
BaseStyleId(styles, base_style) ==
    LET b == StyleIndex(styles, base_style)
        n == StyleIndex(styles, "Normal")
    IN  IF b # 0 THEN [ok |-> TRUE, id |-> styles[b].id]
        ELSE IF n # 0 THEN [ok |-> TRUE, id |-> styles[n].id]
        ELSE [ok |-> FALSE, id |-> ""]

\* a mutant of CreateStyle: an existing style is given the requested font
CreateStyleOverwrite(styles, style_name, style_type, base_style, fp) ==
    LET k == StyleIndex(styles, style_name)
    IN  IF k # 0 THEN [styles EXCEPT ![k].font = StyleFont(fp)]
        ELSE [AddStyle(styles, style_name, style_type) EXCEPT
                 ![Len(styles) + 1].font = StyleFont(fp)]

\* create_style(doc, style_name, style_type, base_style, font_properties):
\* the style part afterwards.  An existing style is returned as it is.  An
\* exception after add_style (no base style to fall back to) is swallowed and
\* leaves the new style without base and font.
CreateStyle(styles, style_name, style_type, base_style, fp) ==
    IF StyleIndex(styles, style_name) # 0 THEN styles
    ELSE LET added == AddStyle(styles, style_name, style_type)
             new == Len(added)
             base == IF base_style \in {"None", ""} THEN [ok |-> TRUE, id |-> ""]
                     ELSE BaseStyleId(added, base_style)
         IN  IF ~base.ok THEN added
             ELSE [added EXCEPT ![new].base = base.id, ![new].font = StyleFont(fp)]

\* what create_style returns: the place in doc.styles of the existing or the
\* new style, 0 for None
CreateStyleReturn(styles, style_name, base_style) ==
    IF StyleIndex(styles, style_name) # 0 THEN StyleIndex(styles, style_name)
    ELSE IF base_style \in {"None", ""}
            \/ BaseStyleId(AddStyle(styles, style_name, "paragraph"), base_style).ok
    THEN Len(styles) + 1
    ELSE 0

\* the reply and the saved document of create_custom_style: the document is
\* saved whatever create_style returned (ret records what it returned)
CreateCustomStyleOut(d, a) ==
    [result |-> "ok", saved |-> TRUE,
     ret |-> CreateStyleReturn(d.styles, a.style_name, a.base_style),
     doc |-> [d EXCEPT !.styles =
                 CreateStyle(@, a.style_name, "paragraph", a.base_style,
                             FontProperties(a))]]

(***************************************************************************)
(* add_heading                                                             *)
(***************************************************************************)
\* the direct formatting of the fallback heading: bold, sized by level
DirectHeadingFmt(level) ==
    [NoFmt EXCEPT !.bold = "True",
                  !.size = IF level = 1 THEN 16 ELSE IF level = 2 THEN 14 ELSE 12]

\* the "except Exception as style_error" branch of add_heading, run on the
\* body as doc.add_heading left it
DirectHeading(d, a) ==
    LET n == StyleIndex(d.styles, "Normal")
    IN  IF n = 0 \/ ~StyleRef(d.styles[IF n = 0 THEN 1 ELSE n], "paragraph").ok
           \/ a.text = <<>>
        THEN [result |-> "failed", doc |-> d, ret |-> 0, saved |-> FALSE]
        ELSE [result |-> "direct", ret |-> 0, saved |-> TRUE,
              doc |-> [d EXCEPT !.paras = Append(@,
                  WithAlignment([runs |-> <<[text |-> a.text,
                                            fmt |-> DirectHeadingFmt(a.level)]>>,
                                 style |-> StyleRef(d.styles[n], "paragraph").id,
                                 align |-> "None"], a.alignment))]]

\* the reply and the saved document of add_heading.  doc.add_heading raises
\* for a level outside 0..9 before it adds anything; otherwise it adds the
\* paragraph and then assigns the style by name, so a style that does not
\* resolve, or is no paragraph style, leaves that paragraph in the body when
\* the fallback branch adds its own.
AddHeadingOut(d0, a) ==
    LET d == EnsureHeadingStyle(d0)
        name == IF a.level = 0 THEN "Title" ELSE HeadingName(a.level)
        k == IF a.level \in 0..HeadingLevels THEN StyleIndex(d.styles, name) ELSE 0
        withPara == [d EXCEPT !.paras = Append(@, NewPara(a.text))]
        r == IF a.level \notin 0..HeadingLevels THEN DirectHeading(d, a)
             ELSE IF k = 0 \/ ~StyleRef(d.styles[IF k = 0 THEN 1 ELSE k], "paragraph").ok
             THEN DirectHeading(withPara, a)
             ELSE [result |-> "ok", ret |-> 0, saved |-> TRUE,
                   doc |-> [d EXCEPT !.paras = Append(@,
                       WithAlignment([NewPara(a.text) EXCEPT
                           !.style = StyleRef(d.styles[k], "paragraph").id],
                           a.alignment))]]
    IN  [result |-> r.result, ret |-> 0, saved |-> r.saved,
         doc |-> IF r.saved THEN r.doc ELSE d0]

(***************************************************************************)
(* Tables.  A table is [rows, cols, style, cells]; cells maps <<row, col>>  *)
(* (from 1) to a cell [paras, tcBorders, shd]: the cell's paragraphs, the  *)
(* edge elements of its w:tcBorders in order, and the fills of its w:shd   *)
(* elements in order.                                                      *)
(***************************************************************************)
\* a cell as document.add_table makes it: one empty paragraph
NewCell ==
    [paras |-> <<NewPara(<<>>)>>, tcBorders |-> <<>>, shd |-> <<>>]

\* "cell.text = text": the content is replaced by one paragraph of one run
SetCellText(cell, text) ==
    [cell EXCEPT !.paras = <<[runs |-> <<NewRun(text)>>, style |-> "", align |-> "None"]>>]

\* str(cell_text): a str as it is, an int in decimal digits
Str(v) ==
    IF v.kind = "str" THEN v.v
    ELSE IF v.v < 10 THEN <<ToString(v.v)>>
    ELSE <<ToString(v.v \div 10), ToString(v.v % 10)>>

\* a mutant of FillCells: only the first row of data is written
FillCellsFirstRow(rows, cols, data) ==
    [rc \in (1..rows) \X (1..cols) |->
        IF rc[1] = 1 /\ rc[1] <= Len(data) /\ rc[2] <= Len(data[rc[1]])
        THEN SetCellText(NewCell, Str(data[rc[1]][rc[2]]))
        ELSE NewCell]

\* the grid after "if data:": cell (i, j) is set while i < rows, j < cols
FillCells(rows, cols, data) ==
    [rc \in (1..rows) \X (1..cols) |->
        IF rc[1] <= Len(data) /\ rc[2] <= Len(data[rc[1]])
        THEN SetCellText(NewCell, Str(data[rc[1]][rc[2]]))
        ELSE NewCell]

\* the reply and the saved document of add_table.  "table.style = 'Table
\* Grid'" passes on KeyError; a 'Table Grid' that is no table style raises
\* ValueError, which ends the call without a save.
AddTableOut(d, a) ==
    LET k == StyleIndex(d.styles, "Table Grid")
        ref == IF k = 0 THEN [ok |-> TRUE, id |-> ""] ELSE StyleRef(d.styles[k], "table")
    IN  IF ~ref.ok THEN [result |-> "failed", doc |-> d, ret |-> 0, saved |-> FALSE]
        ELSE [result |-> "ok", ret |-> 0, saved |-> TRUE,
              doc |-> [d EXCEPT !.tables = Append(@,
                         [rows |-> a.rows, cols |-> a.cols, style |-> ref.id,
                          cells |-> FillCells(a.rows, a.cols, a.data)])]]

(***************************************************************************)
(* set_cell_border / format_table                                          *)
(***************************************************************************)
\* a mutant of BorderVal: thick shares the value of double
BorderValThickAsDouble(border_style) ==
    CASE border_style \in {"none", "NONE"} -> "nil"
      [] border_style \in {"double", "DOUBLE", "thick"} -> "double"
      [] OTHER -> "single"

\* val_map.get(str(border_style).lower(), 'single')
BorderVal(border_style) ==
    CASE border_style \in {"none", "NONE"} -> "nil"
      [] border_style \in {"double", "DOUBLE"} -> "double"
      [] border_style = "thick" -> "thick"
      [] OTHER -> "single"

\* set_cell_border(cell, top=True, bottom=True, left=True, right=True,
\* val=val, color="000000"): one element per edge key, in keyword order,
\* appended to the cell's w:tcBorders
SetCellBorder(cell, val) ==
    [cell EXCEPT !.tcBorders = @ \o
        [e \in 1..4 |-> [edge |-> <<"top", "bottom", "left", "right">>[e],
                         val |-> val, sz |-> "4", space |-> "0",
                         color |-> "000000"]]]

\* a mutant of IsHeader: every value asks for the header row
IsHeaderAlways(has_header_row) ==
    TRUE

\* is_header: a str must be 'true' in lower case, another value goes
\* through bool()
IsHeader(has_header_row) ==
    has_header_row \in StrTrue \cup {"True"}

\* run.bold = True on every run of every paragraph of a cell
BoldCell(cell) ==
    [cell EXCEPT !.paras =
        [k \in 1..Len(cell.paras) |->
            [cell.paras[k] EXCEPT !.runs =
                [i \in 1..Len(cell.paras[k].runs) |->
                    [cell.paras[k].runs[i] EXCEPT !.fmt.bold = "True"]]]]]

\* colours the f-string markup of w:shd cannot carry (parse_xml raises)
Unencodable == {"<", "a\"b"}

\* a mutant of ShadeCell: the new w:shd takes the place of the earlier ones
ShadeCellReplace(t, rc, cell, shading) ==
    IF rc[1] <= Len(shading) /\ rc[2] <= Len(shading[rc[1]])
       /\ shading[rc[1]][rc[2]] \notin Unencodable
    THEN [cell EXCEPT !.shd = <<shading[rc[1]][rc[2]]>>]
    ELSE cell

\* the shading loop: entry (i, j) appends a w:shd to cell (i, j) while
\* i < len(table.rows) and j < len(table.rows[i].cells)
ShadeCell(t, rc, cell, shading) ==
    IF rc[1] <= Len(shading) /\ rc[2] <= Len(shading[rc[1]])
       /\ shading[rc[1]][rc[2]] \notin Unencodable
    THEN [cell EXCEPT !.shd = Append(@, shading[rc[1]][rc[2]])]
    ELSE cell

\* what the shading loop enumerates.  A list is taken as it is (a str is
\* first parsed by json.loads); a str that parses to a JSON string is
\* enumerated character by character, each character being a row whose one
\* colour is that character
ShadingRows(shading) ==
    IF shading.kind = "jsonstr"
    THEN [i \in 1..Len(shading.rows) |-> <<shading.rows[i]>>]
    ELSE shading.rows

\* the table after the header, border and shading steps of format_table
FormatTableCells(t, a) ==
    [t EXCEPT !.cells =
        [rc \in DOMAIN t.cells |->
            LET c1 == IF IsHeader(a.has_header_row) /\ rc[1] = 1
                      THEN BoldCell(t.cells[rc]) ELSE t.cells[rc]
                c2 == IF a.border_style \notin {"None", ""}
                      THEN SetCellBorder(c1, BorderVal(a.border_style)) ELSE c1
            IN  IF a.shading.kind \in {"list", "jsonstr"}
                THEN ShadeCell(t, rc, c2, ShadingRows(a.shading))
                ELSE c2]]

\* the reply and the saved document of format_table.  A shading str that is
\* no JSON returns after the header and border steps, without a save; one
\* that parses to a number makes enumerate raise (TypeError), which the
\* outer handler turns into a failure, also without a save.
FormatTableOut(d, a) ==
    IF ~a.numeric
    THEN [result |-> "NotInteger", doc |-> d, ret |-> 0, saved |-> FALSE]
    ELSE IF ~ValidIndex(Len(d.tables), a.table_index)
    THEN [result |-> "InvalidIndex", doc |-> d, ret |-> 0, saved |-> FALSE]
    ELSE IF a.shading.kind = "badjson"
    THEN [result |-> "InvalidShading", doc |-> d, ret |-> 0, saved |-> FALSE]
    ELSE IF a.shading.kind = "jsonnum"
    THEN [result |-> "failed", doc |-> d, ret |-> 0, saved |-> FALSE]
    ELSE [result |-> "ok", ret |-> 0, saved |-> TRUE,
          doc |-> [d EXCEPT !.tables[a.table_index + 1] = FormatTableCells(@, a)]]

(***************************************************************************)
(* get_table_detailed_info                                                 *)
(***************************************************************************)
\* cell_info["shading"]: the fill of the first w:shd child of the cell's
\* properties, when there is one and its fill is not empty
DetailedShading(cell) ==
    IF cell.shd = <<>> \/ Head(cell.shd) = "" THEN "None" ELSE Head(cell.shd)

(***************************************************************************)
(* Documents.  A document is [paras, tables, styles]: doc.paragraphs,      *)
(* doc.tables and doc.styles.                                              *)
(***************************************************************************)
\* a built-in style of a loaded package
BuiltinStyle(name, id, type, base, font, default) ==
    [name |-> name, id |-> id, type |-> type, base |-> base, font |-> font,
     custom |-> FALSE, default |-> default]

\* Document(): the library's default template, which has no body content
\* and carries, among others, these styles
TemplateDoc ==
    [paras |-> <<>>, tables |-> <<>>,
     styles |->
        <<BuiltinStyle("Normal", "Normal", "paragraph", "", NoFmt, TRUE)>>
        \o [i \in 1..HeadingLevels |->
              BuiltinStyle(HeadingName(i), "Heading" \o ToString(i), "paragraph",
                           "Normal", [NoFmt EXCEPT !.bold = "True"], FALSE)]
        \o <<BuiltinStyle("Title", "Title", "paragraph", "Normal", NoFmt, FALSE),
             BuiltinStyle("Default Paragraph Font", "DefaultParagraphFont",
                          "character", "", NoFmt, TRUE),
             BuiltinStyle("Normal Table", "TableNormal", "table", "", NoFmt, TRUE),
             BuiltinStyle("Table Grid", "TableGrid", "table", "TableNormal",
                          NoFmt, FALSE)>>]

\* the reply and the saved document of create_document
CreateDocumentOut ==
    [result |-> "ok", ret |-> 0, saved |-> TRUE, doc |-> EnsureHeadingStyle(TemplateDoc)]

\* a package of another author: no 'Table Grid', no 'Title', and of the
\* heading styles only a customised 'Heading 1'
ForeignDoc ==
    [paras |-> <<>>, tables |-> <<>>,
     styles |->
        <<BuiltinStyle("Normal", "Normal", "paragraph", "", NoFmt, TRUE),
          BuiltinStyle("Heading 1", "Heading1", "paragraph", "Normal",
                       [NoFmt EXCEPT !.italic = "True", !.size = 20], FALSE),
          BuiltinStyle("Default Paragraph Font", "DefaultParagraphFont",
                       "character", "", NoFmt, TRUE)>>]

\* what the variable doc holds while the file does not exist
NoDoc ==
    [paras |-> <<>>, tables |-> <<>>, styles |-> <<>>]

Fox ==
    <<"T", "h", "e", " ", "q", "u", "i", "c", "k", " ",
      "b", "r", "o", "w", "n", " ", "f", "o", "x">>

Cat == <<"c", "a", "t">>
CatCat == <<"c", "a", "t", " ", "c", "a", "t">>
Dog == <<"d", "o", "g">>

\* a template document with the paragraph "The quick brown fox" in one run
FoxDoc ==
    [TemplateDoc EXCEPT !.paras = <<NewPara(Fox)>>]

\* a template document with the paragraphs "cat cat" and "cat", one run each
CatDoc ==
    [TemplateDoc EXCEPT !.paras = <<NewPara(CatCat), NewPara(Cat)>>]

(***************************************************************************)
(* add_picture / add_page_break                                            *)
(***************************************************************************)
\* doc.add_page_break(): a new last paragraph whose one run holds a page
\* break and no text
PageBreakPara ==
    [runs |-> <<[text |-> <<>>, fmt |-> NoFmt, holds |-> "page break"]>>,
     style |-> "", align |-> "None"]

\* doc.add_picture(path): a new last paragraph whose one run holds the
\* inline picture and no text
PicturePara ==
    [runs |-> <<[text |-> <<>>, fmt |-> NoFmt, holds |-> "picture"]>>,
     style |-> "", align |-> "None"]

\* the reply and the saved document of add_page_break
AddPageBreakOut(d, a) ==
    [result |-> "ok", ret |-> 0, saved |-> TRUE,
     doc |-> [d EXCEPT !.paras = Append(@, PageBreakPara)]]

\* the reply and the saved document of add_picture, the image file being
\* there and not empty: a file that is no image makes doc.add_picture raise
AddPictureOut(d, a) ==
    IF a.image = "no image"
    THEN [result |-> "failed", doc |-> d, ret |-> 0, saved |-> FALSE]
    ELSE [result |-> "ok", ret |-> 0, saved |-> TRUE,
          doc |-> [d EXCEPT !.paras = Append(@, PicturePara)]]

(***************************************************************************)
(* The tool calls.                                                         *)
(***************************************************************************)
\* a tool without the existence check: Document(filename) raises
NotFoundAsLoadFailure(d) ==
    [result |-> "failed", doc |-> d, ret |-> 0, saved |-> FALSE]

\* the reply of a tool whose document does not exist: "if not
\* os.path.exists(filename): return ...", before anything is opened
NotFoundReply(d) ==
    [result |-> "NotFound", doc |-> d, ret |-> 0, saved |-> FALSE]

\* a probe that opened the file for writing, not for appending
WriteBlockedTruncates(d) ==
    [result |-> "WriteBlocked", doc |-> NoDoc, ret |-> 0, saved |-> FALSE]

\* the reply of a tool whose writability probe failed: the probe opens the
\* file for appending and writes nothing, and the tool returns at once
WriteBlockedReply(d) ==
    [result |-> "WriteBlocked", doc |-> d, ret |-> 0, saved |-> FALSE]

\* the checks every tool but create_document starts with, then the tool
Tool(op, a, Out(_, _)) ==
    LET r == IF ~exists
             THEN NotFoundReply(doc)
             ELSE IF ~writable
             THEN WriteBlockedReply(doc)
             ELSE Out(doc, a)
    IN  /\ last' = [op |-> op, args |-> a, result |-> r.result, ret |-> r.ret,
                    saved |-> r.saved]
        /\ doc' = r.doc
        /\ UNCHANGED <<exists, writable>>

\* a mutant of create_document: an existing document is not replaced
create_document_if_absent ==
    /\ last' = [op |-> "create_document", args |-> [title |-> "None", author |-> "None"],
                result |-> IF exists THEN "Exists"
                           ELSE IF writable THEN "ok" ELSE "WriteBlocked",
                ret |-> 0, saved |-> ~exists /\ writable]
    /\ exists' = (exists \/ writable)
    /\ doc' = IF ~exists /\ writable THEN CreateDocumentOut.doc ELSE doc
    /\ UNCHANGED writable

create_document ==
    /\ last' = [op |-> "create_document", args |-> [title |-> "None", author |-> "None"],
                result |-> IF writable THEN "ok" ELSE "WriteBlocked", ret |-> 0,
                saved |-> writable]
    /\ exists' = (exists \/ writable)
    /\ doc' = IF writable THEN CreateDocumentOut.doc ELSE WriteBlockedReply(doc).doc
    /\ UNCHANGED writable

add_heading(a, cap) ==
    /\ Len(doc.paras) < cap
    /\ Tool("add_heading", a, AddHeadingOut)

add_paragraph(a, cap) ==
    /\ Len(doc.paras) < cap
    /\ Tool("add_paragraph", a, AddParagraphOut)

add_table(a, cap) ==
    /\ Len(doc.tables) < cap
    /\ Tool("add_table", a, AddTableOut)

format_text(a) ==
    /\ ValidIndex(Len(doc.paras), a.paragraph_index)
          => Len(doc.paras[a.paragraph_index + 1].runs) <= MaxRuns
    /\ Tool("format_text", a, FormatTextOut)

\* every run text of a document is at most n characters long
RunsWithin(d, n) ==
    /\ \A k \in 1..Len(d.paras) : \A i \in 1..Len(d.paras[k].runs) :
          Len(d.paras[k].runs[i].text) <= n
    /\ \A t \in 1..Len(d.tables) : \A rc \in DOMAIN d.tables[t].cells :
          \A k \in 1..Len(d.tables[t].cells[rc].paras) :
             \A i \in 1..Len(d.tables[t].cells[rc].paras[k].runs) :
                Len(d.tables[t].cells[rc].paras[k].runs[i].text) <= n

search_and_replace(a) ==
    /\ RunsWithin(FindAndReplaceText(doc, a.find_text, a.replace_text).doc, MaxTextLen)
    /\ Tool("search_and_replace", a, SearchAndReplaceOut)

delete_paragraph(a) ==
    /\ a.paragraph_index \in Int
    /\ Tool("delete_paragraph", a, DeleteParagraphOut)

create_custom_style(a) ==
    /\ a.style_name \in StyleNames
    /\ Tool("create_custom_style", a, CreateCustomStyleOut)

format_table(a) ==
    /\ \A n \in 1..Len(doc.tables) : \A rc \in DOMAIN doc.tables[n].cells :
          /\ Len(doc.tables[n].cells[rc].tcBorders) <= MaxEdges
          /\ Len(doc.tables[n].cells[rc].shd) <= MaxShd
    /\ Tool("format_table", a, FormatTableOut)

set_paragraph_alignment(a) ==
    /\ a.paragraph_index \in Int
    /\ Tool("set_paragraph_alignment", a, SetParagraphAlignmentOut)

add_page_break(cap) ==
    /\ Len(doc.paras) < cap
    /\ Tool("add_page_break", [none |-> TRUE], AddPageBreakOut)

\* add_picture looks at the image file after the document's existence and
\* before its writability
add_picture(a, cap) ==
    /\ Len(doc.paras) < cap
    /\ LET r == IF ~exists
                THEN NotFoundReply(doc)
                ELSE IF a.image = "missing"
                THEN [result |-> "ImageNotFound", doc |-> doc, ret |-> 0, saved |-> FALSE]
                ELSE IF a.image = "empty"
                THEN [result |-> "ImageEmpty", doc |-> doc, ret |-> 0, saved |-> FALSE]
                ELSE IF ~writable
                THEN WriteBlockedReply(doc)
                ELSE AddPictureOut(doc, a)
       IN  /\ last' = [op |-> "add_picture", args |-> a, result |-> r.result,
                       ret |-> r.ret, saved |-> r.saved]
           /\ doc' = r.doc
    /\ UNCHANGED <<exists, writable>>

\* the tools that read a document: each starts with the existence check
\* and writes nothing
ReadOps ==
    {"get_document_info", "get_document_text", "get_document_styles",
     "get_document_outline", "get_headers_and_footers", "get_footnotes_and_endnotes"}

read_document(op) ==
    /\ op \in ReadOps
    /\ last' = [op |-> op, args |-> [none |-> TRUE],
                result |-> IF exists THEN "ok" ELSE NotFoundReply(doc).result,
                ret |-> 0, saved |-> FALSE]
    /\ UNCHANGED <<exists, writable, doc>>

\* copy_document with the document as its source: the copy is another file
copy_document ==
    /\ last' = [op |-> "copy_document", args |-> [destination_filename |-> "None"],
                result |-> IF exists THEN "ok" ELSE NotFoundReply(doc).result,
                ret |-> 0, saved |-> FALSE]
    /\ UNCHANGED <<exists, writable, doc>>

(***************************************************************************)
(* Arguments the specifications draw from.                                 *)
(***************************************************************************)
BoldAttrs == [NoAttrs EXCEPT !.bold = "True"]
RedItalicAttrs == [NoAttrs EXCEPT !.italic = "'true'", !.color = "'RED'", !.font_size = "12"]
MauveAttrs == [NoAttrs EXCEPT !.color = "'mauve'", !.bold = "'yes'"]

FormatArgs(indexes, ranges, attrs) ==
    {[numeric |-> TRUE, paragraph_index |-> i, start_pos |-> r[1], end_pos |-> r[2],
      attrs |-> at] : i \in indexes, r \in ranges, at \in attrs}

\* format_text calls of the text specification: every range on the existing
\* paragraphs, and calls whose index is refused
TextFormatArgs ==
    FormatArgs({0, 1}, {<<4, 9>>, <<0, 2>>, <<-1, 2>>, <<2, 2>>, <<0, 20>>}, {BoldAttrs})
    \cup FormatArgs({0}, {<<1, 3>>}, {RedItalicAttrs, MauveAttrs})
    \cup FormatArgs({0}, {<<0, 2>>}, {RedItalicAttrs})
    \cup FormatArgs({-1, 2}, {<<0, 2>>}, {BoldAttrs})
    \cup {[numeric |-> FALSE, paragraph_index |-> 0, start_pos |-> 0, end_pos |-> 2,
           attrs |-> BoldAttrs]}

TextReplaceArgs ==
    {[find_text |-> Cat, replace_text |-> Dog]}

TextTableArgs ==
    {[rows |-> 1, cols |-> 2,
      data |-> <<<<[kind |-> "str", v |-> CatCat], [kind |-> "int", v |-> 7]>>>>]}

NoCall ==
    [op |-> "none", args |-> [none |-> TRUE], result |-> "none", ret |-> 0,
     saved |-> FALSE]

(***************************************************************************)
(* SpecText: format_text and search_and_replace on loaded documents.       *)
(***************************************************************************)
InitText ==
    /\ exists = TRUE
    /\ writable = TRUE
    /\ doc \in {FoxDoc, CatDoc}
    /\ last = NoCall

NextText ==
    \/ \E a \in TextFormatArgs : format_text(a)
    \/ \E a \in TextReplaceArgs : search_and_replace(a)
    \/ \E a \in TextTableArgs : add_table(a, MaxTables)

SpecText ==
    InitText /\ [][NextText]_vars

(***************************************************************************)
(* Properties of format_text.                                              *)
(***************************************************************************)
\* the step is a format_text call that reached its success reply
FormatTextOk ==
    last'.op = "format_text" /\ last'.result = "ok"

\* C1: a successful format_text leaves the number of paragraphs and the
\* text of every paragraph (the concatenation of its run texts, in order) as
\* they were before the call, whatever runs the paragraph had.
C1_FormatKeepsText ==
    [][FormatTextOk =>
          /\ Len(doc'.paras) = Len(doc.paras)
          /\ \A k \in 1..Len(doc.paras) :
                JoinRuns(doc'.paras[k].runs) = ParaText(doc.paras[k])]_vars

\* C1 witness: a paragraph that already was split into several runs has been
\* formatted again and still reads "The quick brown fox"
C1_Witness ==
    /\ last.op = "format_text" /\ last.result = "ok"
    /\ Len(doc.paras) = 1
    /\ Len(doc.paras[1].runs) >= 5
    /\ ParaText(doc.paras[1]) = Fox

\* the three runs the specification describes for formatRange(start, end, attrs)
ThreeRuns(text, a) ==
    BeforeRun(text, a.start_pos)
    \o <<[text |-> Slice(text, a.start_pos, a.end_pos), fmt |-> TargetFmt(a.attrs)]>>
    \o AfterRun(text, a.end_pos)

\* C2 (as claimed): after a successful format_text the paragraph's runs are
\* exactly the up to three new runs before / target / after, and no others.
C2_OnlyThreeRuns ==
    [][FormatTextOk =>
          doc'.paras[last'.args.paragraph_index + 1].runs =
             ThreeRuns(ParaText(doc.paras[last'.args.paragraph_index + 1]),
                       last'.args)]_vars

\* C3: a format_text call that passed the file checks with an index outside
\* [0, count) is refused as InvalidIndex, and one with a valid index whose
\* positions do not satisfy 0 <= start < end <= len(text) is refused as
\* InvalidRange; a refused call changes no document content and does not
\* reach doc.save.
C3_FormatRefusals ==
    [][(last'.op = "format_text" /\ exists /\ writable /\ last'.args.numeric) =>
          LET a == last'.args
              n == Len(doc.paras)
              inRange == 0 <= a.paragraph_index /\ a.paragraph_index < n
          IN  /\ ~inRange => last'.result = "InvalidIndex"
              /\ (inRange /\ ~(/\ 0 <= a.start_pos
                               /\ a.start_pos < a.end_pos
                               /\ a.end_pos <= Len(ParaText(doc.paras[a.paragraph_index + 1]))))
                    => last'.result = "InvalidRange"
              /\ last'.result \in {"InvalidIndex", "InvalidRange"}
                    => doc' = doc /\ ~last'.saved]_vars

\* C3 witness: an empty range (start = end) on an existing paragraph was
\* refused
C3_Witness ==
    /\ last.op = "format_text" /\ last.result = "InvalidRange"
    /\ last.args.start_pos = last.args.end_pos
    /\ last.args.paragraph_index < Len(doc.paras)

(***************************************************************************)
(* Properties of search_and_replace.                                       *)
(***************************************************************************)
\* the step is a search_and_replace call that passed the file checks
ReplaceCall ==
    last'.op = "search_and_replace" /\ exists /\ writable

\* every run of every paragraph of the document, body first, then the cells
\* of the tables: <<"body", k, i>> and <<"cell", t, rc, k, i>>
RunPlaces(d) ==
    {<<"body", k, i>> : k \in 1..Len(d.paras), i \in 1..MaxRuns + MaxRuns + 3}
    \cup {<<"cell", t, rc, k>> : t \in 1..Len(d.tables),
                                 rc \in (1..2) \X (1..2), k \in 1..1}

\* the run at a place, or no run
HasRun(d, pl) ==
    IF pl[1] = "body" THEN pl[3] <= Len(d.paras[pl[2]].runs)
    ELSE /\ pl[3] \in DOMAIN d.tables[pl[2]].cells
         /\ Len(d.tables[pl[2]].cells[pl[3]].paras) = 1
         /\ Len(d.tables[pl[2]].cells[pl[3]].paras[1].runs) = 1

RunAt(d, pl) ==
    IF pl[1] = "body" THEN d.paras[pl[2]].runs[pl[3]]
    ELSE d.tables[pl[2]].cells[pl[3]].paras[1].runs[1]

\* the places of d that hold a run
Places(d) ==
    {pl \in RunPlaces(d) : HasRun(d, pl)}

\* C5: search_and_replace(old, new) leaves the run structure as it is, gives
\* every run (of the body and of the table cells) that contains old the text
\* with every occurrence replaced, leaves every other run as it was, and
\* returns the number of runs that contained old.  On the runs "cat cat" and
\* "cat", replacing "cat" by "dog" returns 2 and gives "dog dog" and "dog".
C5_ReplacePerRun ==
    [][ReplaceCall =>
          LET old == last'.args.find_text
              new == last'.args.replace_text
          IN  /\ Places(doc') = Places(doc)
              /\ \A pl \in Places(doc) :
                    /\ RunAt(doc', pl).fmt = RunAt(doc, pl).fmt
                    /\ RunAt(doc', pl).text =
                          IF Contains(RunAt(doc, pl).text, old)
                          THEN StrReplace(RunAt(doc, pl).text, old, new)
                          ELSE RunAt(doc, pl).text
              /\ last'.ret = Cardinality({pl \in Places(doc) :
                                             Contains(RunAt(doc, pl).text, old)})
              /\ (doc = CatDoc /\ old = Cat /\ new = Dog) =>
                    /\ last'.ret = 2
                    /\ doc'.paras[1].runs[1].text = <<"d", "o", "g", " ", "d", "o", "g">>
                    /\ doc'.paras[2].runs[1].text = Dog]_vars

\* C5 witness: a call counted a run that holds two occurrences once, and a
\* table cell's run was rewritten
C5_Witness ==
    /\ last.op = "search_and_replace" /\ last.args.find_text = Cat
    /\ last.ret = 3
    /\ Len(doc.paras) = 2 /\ Len(doc.tables) = 1
    /\ doc.paras[1].runs[1].text = <<"d", "o", "g", " ", "d", "o", "g">>
    /\ doc.tables[1].cells[<<1, 1>>].paras[1].runs[1].text =
          <<"d", "o", "g", " ", "d", "o", "g">>

\* old occurs in the paragraph's text and in none of its runs
SplitAcrossRuns(p, old) ==
    /\ Contains(ParaText(p), old)
    /\ \A i \in 1..Len(p.runs) : ~Contains(p.runs[i].text, old)

\* C6: a paragraph whose text contains old only across run boundaries is
\* left as it is by search_and_replace, and when no paragraph holds old
\* within one run the call returns 0 and saves nothing.
C6_SplitOccurrenceIgnored ==
    [][ReplaceCall =>
          LET old == last'.args.find_text
          IN  /\ \A k \in 1..Len(doc.paras) :
                    SplitAcrossRuns(doc.paras[k], old)
                       => doc'.paras[k] = doc.paras[k]
              /\ (\A pl \in Places(doc) : ~Contains(RunAt(doc, pl).text, old))
                    => last'.ret = 0 /\ doc' = doc /\ ~last'.saved]_vars

\* C6 witness: "cat" was searched in a document whose only occurrence of it
\* is split across two runs, and nothing was counted
C6_Witness ==
    /\ last.op = "search_and_replace" /\ last.args.find_text = Cat
    /\ last.ret = 0
    /\ \E k \in 1..Len(doc.paras) : SplitAcrossRuns(doc.paras[k], Cat)

(***************************************************************************)
(* SpecBody: add_paragraph, delete_paragraph and set_paragraph_alignment   *)
(* on a document made from the template.                                   *)
(***************************************************************************)
BodyParagraphArgs ==
    {[text |-> Cat, style |-> "None", alignment |-> "None"],
     [text |-> Dog, style |-> "Heading 1", alignment |-> "center"],
     [text |-> Fox, style |-> "heading2", alignment |-> "None"],
     [text |-> Cat, style |-> "Nope", alignment |-> "right"],
     [text |-> Dog, style |-> "Table Grid", alignment |-> "right"],
     [text |-> <<>>, style |-> "", alignment |-> "sideways"]}

BodyDeleteArgs ==
    {[paragraph_index |-> i] : i \in -1..MaxParas}

BodyAlignmentArgs ==
    {[paragraph_index |-> i, alignment |-> al] :
        i \in {0, MaxParas}, al \in {"JUSTIFY", "middle"}}

InitBody ==
    /\ exists \in BOOLEAN
    /\ writable \in BOOLEAN
    /\ doc = IF exists THEN TemplateDoc ELSE NoDoc
    /\ last = NoCall

NextBody ==
    \/ \E a \in BodyParagraphArgs : add_paragraph(a, MaxParas)
    \/ \E a \in BodyDeleteArgs : delete_paragraph(a)
    \/ \E a \in BodyAlignmentArgs : set_paragraph_alignment(a)

SpecBody ==
    InitBody /\ [][NextBody]_vars

StyleCall(name, base, bold, italic, size, color) ==
    [style_name |-> name, base_style |-> base, bold |-> bold, italic |-> italic,
     font_size |-> size, font_name |-> "None", color |-> color]

StyleArgs ==
    {StyleCall("Emphasis", "None", "True", "None", "None", "None"),
     StyleCall("Emphasis", "Normal", "None", "'true'", "12", "'red'"),
     StyleCall("My Style", "Table Grid", "None", "None", "None", "None"),
     StyleCall("MyStyle", "Nope", "None", "None", "'14'", "'mauve'"),
     StyleCall("Quote", "Default Paragraph Font", "None", "True", "None", "None"),
     StyleCall("Heading 1", "None", "'false'", "None", "12", "None")}

HeadingArgs ==
    {[text |-> Cat, level |-> 1, alignment |-> "None"],
     [text |-> Dog, level |-> 0, alignment |-> "center"],
     [text |-> Dog, level |-> 10, alignment |-> "None"]}

InitStyle ==
    /\ exists \in BOOLEAN
    /\ writable = TRUE
    /\ doc \in (IF exists THEN {TemplateDoc, ForeignDoc} ELSE {NoDoc})
    /\ last = NoCall

NextStyle ==
    \/ \E a \in StyleArgs : create_custom_style(a)
    \/ \E a \in HeadingArgs : add_heading(a, MaxParasAll)
    \/ create_document

SpecStyle ==
    InitStyle /\ [][NextStyle]_vars

(***************************************************************************)
(* Properties of the style tools.                                          *)
(***************************************************************************)
\* a style of that name is in the style part
HasStyleNamed(styles, name) ==
    \E k \in 1..Len(styles) : styles[k].name = name

\* C7: create_custom_style with the name of an existing style leaves the
\* whole style part (every style's type, base, font; the number of styles)
\* as it was, whatever attributes the call asks for, and create_style
\* returns the existing style of that name.
C7_CreateStyleIdempotent ==
    [][(last'.op = "create_custom_style" /\ exists /\ writable
        /\ HasStyleNamed(doc.styles, last'.args.style_name)) =>
          /\ doc'.styles = doc.styles
          /\ last'.ret \in 1..Len(doc.styles)
          /\ doc.styles[last'.ret].name = last'.args.style_name]_vars

\* C7 witness: "Emphasis" was created bold, then requested again italic, red
\* and based on Normal; it is still bold, not italic, and without a base
C7_Witness ==
    /\ last.op = "create_custom_style"
    /\ last.args.style_name = "Emphasis" /\ last.args.italic = "'true'"
    /\ \E k \in 1..Len(doc.styles) :
          /\ doc.styles[k].name = "Emphasis"
          /\ doc.styles[k].font.bold = "True"
          /\ doc.styles[k].font.italic = "None"
          /\ doc.styles[k].base = ""
          /\ last.ret = k

\* the style a base reference (a style id) resolves to: the first style of
\* the part with that id; 0 when there is none
BaseIndex(styles, id) ==
    IF \E j \in 1..Len(styles) : styles[j].id = id
    THEN CHOOSE j \in 1..Len(styles) :
            styles[j].id = id /\ \A i \in 1..(j - 1) : styles[i].id # id
    ELSE 0

\* C9 (as claimed): every style's base reference is absent or resolves to
\* an existing style of the style's own type.
C9_BaseStyleCompatible ==
    exists =>
       \A k \in 1..Len(doc.styles) :
          doc.styles[k].base # "" =>
             /\ BaseIndex(doc.styles, doc.styles[k].base) # 0
             /\ doc.styles[BaseIndex(doc.styles, doc.styles[k].base)].type
                   = doc.styles[k].type

\* C10: a call that runs ensure_heading_style and saves leaves every style
\* that had a name "Heading n" (n in 1..9) exactly as it was, at its place;
\* afterwards each "Heading n" exists once, and running ensure_heading_style
\* again on the saved document changes nothing.
C10_EnsureHeadingsIdempotent ==
    [][(last'.op \in {"add_heading", "create_document"} /\ last'.saved) =>
          /\ last'.op = "add_heading" =>
                \A k \in 1..Len(doc.styles) :
                   doc.styles[k].name \in {HeadingName(n) : n \in 1..HeadingLevels}
                      => /\ k <= Len(doc'.styles)
                         /\ doc'.styles[k] = doc.styles[k]
          /\ \A n \in 1..HeadingLevels :
                Cardinality({k \in 1..Len(doc'.styles) :
                                doc'.styles[k].name = HeadingName(n)}) = 1
          /\ EnsureHeadingStyle(doc') = doc']_vars

\* C10 witness: add_heading ran on the package whose "Heading 1" was
\* customised (italic, 20pt): that style is as it was, and "Heading 2" was
\* created beside it
C10_Witness ==
    /\ last.op = "add_heading" /\ last.saved
    /\ \E k \in 1..Len(doc.styles) :
          /\ doc.styles[k].name = "Heading 1"
          /\ doc.styles[k].font.italic = "True" /\ doc.styles[k].font.size = 20
    /\ \E k \in 1..Len(doc.styles) :
          /\ doc.styles[k].name = "Heading 2"
          /\ doc.styles[k].custom /\ doc.styles[k].font.size = 14

\* C11: after a successful create_document the saved document has a
\* paragraph style named "Heading n" for every n in 1..9; and whenever
\* ensure_heading_style ran and the document was saved, each "Heading n" it
\* had to create (absent from the document it was given) is bold with size
\* 16 for n = 1, 14 for n = 2 and 12 for n in 3..9.
C11_HeadingStylesPresent ==
    [][(last'.op \in {"add_heading", "create_document"} /\ last'.saved) =>
          LET given == IF last'.op = "create_document" THEN TemplateDoc ELSE doc
          IN  /\ last'.op = "create_document" =>
                    \A n \in 1..HeadingLevels :
                       \E k \in 1..Len(doc'.styles) :
                          /\ doc'.styles[k].name = HeadingName(n)
                          /\ doc'.styles[k].type = "paragraph"
              /\ \A n \in 1..HeadingLevels : \A k \in 1..Len(doc'.styles) :
                    (/\ doc'.styles[k].name = HeadingName(n)
                     /\ ~HasStyleNamed(given.styles, HeadingName(n)))
                       => /\ doc'.styles[k].type = "paragraph"
                          /\ doc'.styles[k].font.bold = "True"
                          /\ doc'.styles[k].font.size =
                                (IF n = 1 THEN 16 ELSE IF n = 2 THEN 14 ELSE 12)]_vars

\* C11 witness: create_document has just replaced the package that had only
\* a customised "Heading 1"; the new document has "Heading 1" as the
\* template defines it, and "Heading 9"
C11_Witness ==
    /\ last.op = "create_document" /\ last.result = "ok"
    /\ \E k \in 1..Len(doc.styles) :
          doc.styles[k].name = "Heading 1" /\ doc.styles[k].font.italic = "None"
    /\ \E k \in 1..Len(doc.styles) :
          doc.styles[k].name = "Heading 9" /\ doc.styles[k].type = "paragraph"

(***************************************************************************)
(* Spec: every tool, on a package of another author or on no file yet.     *)
(***************************************************************************)
AllHeadingArgs ==
    {[text |-> Cat, level |-> 2, alignment |-> "None"]}

AllParagraphArgs ==
    {[text |-> Cat, style |-> "Emphasis", alignment |-> "center"]}

AllTableArgs ==
    {[rows |-> 1, cols |-> 1, data |-> <<<<[kind |-> "str", v |-> Cat]>>>>]}

AllFormatArgs ==
    FormatArgs({0}, {<<0, 2>>}, {BoldAttrs})

AllReplaceArgs ==
    {[find_text |-> Cat, replace_text |-> Dog]}

AllDeleteArgs ==
    {[paragraph_index |-> 0]}

AllStyleArgs ==
    {StyleCall("Emphasis", "None", "True", "None", "None", "None"),
     StyleCall("Heading 2", "Nope", "None", "None", "20", "None")}

AllFormatTableArgs ==
    {[numeric |-> TRUE, table_index |-> 0, has_header_row |-> "True",
      border_style |-> "double",
      shading |-> [kind |-> "list", rows |-> <<<<"FF0000">>>>]]}

AllAlignmentArgs ==
    {[paragraph_index |-> 0, alignment |-> "right"]}

Init ==
    /\ exists \in BOOLEAN
    /\ writable \in BOOLEAN
    /\ doc = IF exists THEN ForeignDoc ELSE NoDoc
    /\ last = NoCall

Next ==
    \/ create_document
    \/ \E a \in AllHeadingArgs : add_heading(a, MaxParasAll)
    \/ \E a \in AllParagraphArgs : add_paragraph(a, MaxParasAll)
    \/ \E a \in AllTableArgs : add_table(a, MaxTables)
    \/ \E a \in AllFormatArgs : format_text(a)
    \/ \E a \in AllReplaceArgs : search_and_replace(a)
    \/ \E a \in AllDeleteArgs : delete_paragraph(a)
    \/ \E a \in AllStyleArgs : create_custom_style(a)
    \/ \E a \in AllFormatTableArgs : format_table(a)
    \/ \E a \in AllAlignmentArgs : set_paragraph_alignment(a)

Spec ==
    Init /\ [][Next]_vars

\* the names of the styles of a style part
NamesOf(styles) ==
    {styles[k].name : k \in 1..Len(styles)}

\* C8: in every step, style names are unique afterwards, and every tool but
\* create_document (which starts a new document) keeps every style name
\* that existed before the call.
C8_StyleNamesPersist ==
    [][/\ Cardinality(NamesOf(doc'.styles)) = Len(doc'.styles)
       /\ last'.op # "create_document" => NamesOf(doc.styles) \subseteq NamesOf(doc'.styles)]_vars

\* C8 witness: after a custom style was created and the heading styles were
\* ensured, a table was formatted and both styles are still there
C8_Witness ==
    /\ last.op = "format_table" /\ last.result = "ok"
    /\ HasStyleNamed(doc.styles, "Emphasis")
    /\ HasStyleNamed(doc.styles, "Heading 9")
    /\ HasStyleNamed(doc.styles, "Heading 1")
    /\ Len(doc.paras) = 1

(***************************************************************************)
(* SpecTable: tables are added to a new document and formatted (header     *)
(* row, borders).                                                          *)
(***************************************************************************)
\* one-character texts
OneChar(c) == <<c>>

\* add_table calls: the 2 x 2 grid with a short second row, a 1 x 1 grid
\* with data beyond the grid (and an int value), a grid without data
TableArgs ==
    {[rows |-> 2, cols |-> 2,
      data |-> <<<<[kind |-> "str", v |-> OneChar("a")],
                   [kind |-> "str", v |-> OneChar("b")]>>,
                 <<[kind |-> "str", v |-> OneChar("c")]>>>>],
     [rows |-> 1, cols |-> 1,
      data |-> <<<<[kind |-> "int", v |-> 42], [kind |-> "str", v |-> Cat]>>,
                 <<[kind |-> "str", v |-> Dog]>>>>],
     [rows |-> 2, cols |-> 1, data |-> <<>>]}

\* a format_table call
TableCall(index, header, border, shading) ==
    [numeric |-> TRUE, table_index |-> index, has_header_row |-> header,
     border_style |-> border, shading |-> shading]

NoShading ==
    [kind |-> "None", rows |-> <<>>]

\* format_table calls on the first table: header row alone, each border
\* style alone, header row off with a border; and one with a bad index
BorderTableArgs ==
    {TableCall(0, "'true'", "None", NoShading),
     TableCall(0, "True", "None", NoShading),
     TableCall(0, "None", "none", NoShading),
     TableCall(0, "None", "single", NoShading),
     TableCall(0, "'false'", "double", NoShading),
     TableCall(0, "None", "thick", NoShading),
     TableCall(0, "None", "dashed", NoShading),
     TableCall(7, "'true'", "double", NoShading)}

InitTable ==
    /\ exists = TRUE
    /\ writable = TRUE
    /\ doc = TemplateDoc
    /\ last = NoCall

NextTable ==
    \/ \E a \in TableArgs : add_table(a, MaxTablesGrid)
    \/ \E a \in BorderTableArgs : format_table(a)

SpecTable ==
    InitTable /\ [][NextTable]_vars

(***************************************************************************)
(* Properties of the table tools.                                          *)
(***************************************************************************)
\* cell.text of a cell that holds one paragraph
CellText(cell) ==
    ParaText(cell.paras[1])

\* C12: a successful add_table(rows, cols, data) appends one table of
\* exactly rows x cols cells; cell (i, j) holds str(data[i][j]) when
\* i < min(rows, len(data)) and j < min(cols, len(data[i])), and is empty
\* otherwise; data beyond the grid does not make the call fail.
C12_AddTableFill ==
    [][(last'.op = "add_table" /\ exists /\ writable) =>
          LET a == last'.args
              t == doc'.tables[Len(doc'.tables)]
          IN  /\ last'.result = "ok" /\ last'.saved
              /\ Len(doc'.tables) = Len(doc.tables) + 1
              /\ DOMAIN t.cells = (1..a.rows) \X (1..a.cols)
              /\ \A i \in 1..a.rows : \A j \in 1..a.cols :
                    /\ Len(t.cells[<<i, j>>].paras) = 1
                    /\ CellText(t.cells[<<i, j>>]) =
                          (IF i <= Len(a.data) /\ j <= Len(a.data[i])
                           THEN Str(a.data[i][j]) ELSE <<>>)]_vars

\* C12 witness: add_table(2, 2, [["a","b"],["c"]]) gave "a", "b", "c", "" as
\* the document's first table
C12_Witness ==
    /\ last.op = "add_table" /\ last.result = "ok"
    /\ Len(doc.tables) = 1
    /\ doc.tables[1].rows = 2 /\ doc.tables[1].cols = 2
    /\ CellText(doc.tables[1].cells[<<1, 1>>]) = OneChar("a")
    /\ CellText(doc.tables[1].cells[<<1, 2>>]) = OneChar("b")
    /\ CellText(doc.tables[1].cells[<<2, 1>>]) = OneChar("c")
    /\ CellText(doc.tables[1].cells[<<2, 2>>]) = <<>>

(***************************************************************************)
(* SpecGrid: every tool that works on an existing document, on a document  *)
(* with one paragraph, with up to MaxTablesGrid tables.                    *)
(***************************************************************************)
GridTableArgs ==
    {[rows |-> 1, cols |-> 1, data |-> <<<<[kind |-> "str", v |-> Cat]>>>>],
     [rows |-> 2, cols |-> 1, data |-> <<>>]}

GridFormatTableArgs ==
    {TableCall(0, "'true'", "double", NoShading)}

GridParagraphArgs ==
    {[text |-> Cat, style |-> "None", alignment |-> "right"]}

GridStyleArgs ==
    {StyleCall("Emphasis", "None", "True", "None", "None", "None")}

InitGrid ==
    /\ exists = TRUE
    /\ writable = TRUE
    /\ doc = [TemplateDoc EXCEPT !.paras = <<NewPara(Cat)>>]
    /\ last = NoCall

NextGrid ==
    \/ \E a \in GridTableArgs : add_table(a, MaxTablesGrid)
    \/ \E a \in GridFormatTableArgs : format_table(a)
    \/ \E a \in AllReplaceArgs : search_and_replace(a)
    \/ \E a \in AllFormatArgs : format_text(a)
    \/ \E a \in AllDeleteArgs : delete_paragraph(a)
    \/ \E a \in GridParagraphArgs : add_paragraph(a, MaxParasAll)
    \/ \E a \in AllAlignmentArgs : set_paragraph_alignment(a)
    \/ \E a \in GridStyleArgs : create_custom_style(a)

SpecGrid ==
    InitGrid /\ [][NextGrid]_vars

\* C13: every step of these tools keeps every existing table at its place
\* with its rows, its columns and its grid of cells, so the number of tables
\* never decreases.
C13_TableDimsFixed ==
    [][/\ Len(doc.tables) <= Len(doc'.tables)
       /\ \A n \in 1..Len(doc.tables) :
             /\ n <= Len(doc'.tables)
             /\ doc'.tables[n].rows = doc.tables[n].rows
             /\ doc'.tables[n].cols = doc.tables[n].cols
             /\ DOMAIN doc'.tables[n].cells
                   = (1..doc.tables[n].rows) \X (1..doc.tables[n].cols)]_vars

\* C13 witness: a 2 x 1 table was added after a 1 x 1 table that had been
\* formatted and whose text had been replaced; the paragraph was deleted;
\* both tables have the rows and columns they were created with
C13_Witness ==
    /\ last.op = "delete_paragraph" /\ last.result = "ok"
    /\ Len(doc.tables) = 2
    /\ doc.tables[1].rows = 1 /\ doc.tables[1].cols = 1
    /\ CellText(doc.tables[1].cells[<<1, 1>>]) = Dog
    /\ doc.tables[1].cells[<<1, 1>>].tcBorders # <<>>
    /\ doc.tables[2].rows = 2 /\ doc.tables[2].cols = 1
    /\ DOMAIN doc.tables[2].cells = (1..2) \X (1..1)

\* a successful format_table call
FormatTableOk ==
    last'.op = "format_table" /\ last'.result = "ok"

\* the runs of a cell, as <<paragraph, run>> places
CellRuns(cell) ==
    {<<k, i>> \in (1..Len(cell.paras)) \X (1..(MaxRuns + MaxRuns)) :
        i <= Len(cell.paras[k].runs)}

\* C14: a successful format_table leaves every cell of the table with the
\* runs it had (none added, texts unchanged); with has_header_row true each
\* run of row 0 is bold afterwards and each run of the other rows has the
\* bold it had; with has_header_row false or absent every run has the bold
\* it had.
C14_HeaderRowBold ==
    [][FormatTableOk =>
          LET a == last'.args
              t == doc.tables[a.table_index + 1]
              u == doc'.tables[a.table_index + 1]
              asked == a.has_header_row \in StrTrue \cup {"True"}
              declined == a.has_header_row \in StrFalse \cup {"False", "None"}
          IN  (asked \/ declined) =>
                 \A rc \in DOMAIN t.cells :
                    /\ CellRuns(u.cells[rc]) = CellRuns(t.cells[rc])
                    /\ \A ki \in CellRuns(t.cells[rc]) :
                          LET r == t.cells[rc].paras[ki[1]].runs[ki[2]]
                              q == u.cells[rc].paras[ki[1]].runs[ki[2]]
                          IN  /\ q.text = r.text
                              /\ q.fmt.bold = (IF asked /\ rc[1] = 1 THEN "True"
                                               ELSE r.fmt.bold)]_vars

\* C14 witness: the header row of the table "a", "b" / "c", "" was made
\* bold: "a" and "b" are bold, "c" is not, the empty cell has no run
C14_Witness ==
    /\ last.op = "format_table" /\ last.result = "ok"
    /\ last.args.has_header_row \in StrTrue
    /\ doc.tables # <<>>
    /\ doc.tables[1].rows = 2 /\ doc.tables[1].cols = 2
    /\ doc.tables[1].cells[<<1, 1>>].paras[1].runs[1].fmt.bold = "True"
    /\ doc.tables[1].cells[<<1, 2>>].paras[1].runs[1].fmt.bold = "True"
    /\ doc.tables[1].cells[<<2, 1>>].paras[1].runs[1].fmt.bold = "None"
    /\ doc.tables[1].cells[<<2, 2>>].paras[1].runs = <<>>

\* the four edges of a cell
Edges == {"top", "bottom", "left", "right"}

\* the markup value the claim gives a border style
ClaimedBorderVal(border_style) ==
    CASE border_style = "none" -> "nil"
      [] border_style = "single" -> "single"
      [] border_style = "double" -> "double"
      [] border_style = "thick" -> "thick"
      [] OTHER -> "single"

\* C15: a successful format_table with a border style gives every cell of
\* the table, on each of its four edges, one new border descriptor whose
\* value is the one the style maps to: nil for none, single, double and
\* thick for themselves, and single for any other style.
C15_BorderStyleMap ==
    [][(FormatTableOk /\ last'.args.border_style # "None") =>
          LET a == last'.args
              t == doc.tables[a.table_index + 1]
              u == doc'.tables[a.table_index + 1]
              v == ClaimedBorderVal(a.border_style)
          IN  \A rc \in DOMAIN u.cells :
                 LET old == t.cells[rc].tcBorders
                     new == u.cells[rc].tcBorders
                 IN  /\ Len(new) = Len(old) + 4
                     /\ \A e \in Edges :
                           \E x \in (Len(old) + 1)..Len(new) :
                              new[x].edge = e /\ new[x].val = v]_vars

\* C15 witness: format_table with the style "dashed" gave the four edges of
\* a cell with no border the value single
C15_Witness ==
    /\ last.op = "format_table" /\ last.result = "ok"
    /\ last.args.border_style = "dashed"
    /\ doc.tables # <<>>
    /\ Len(doc.tables[1].cells[<<1, 1>>].tcBorders) = 4
    /\ \A x \in 1..4 : doc.tables[1].cells[<<1, 1>>].tcBorders[x].val = "single"

\* C16 (as claimed): a cell's border container holds at most one descriptor
\* for each of top, bottom, left and right.
C16_OneDescriptorPerEdge ==
    \A n \in 1..Len(doc.tables) : \A rc \in DOMAIN doc.tables[n].cells :
       \A e \in Edges :
          Cardinality({x \in 1..Len(doc.tables[n].cells[rc].tcBorders) :
                         doc.tables[n].cells[rc].tcBorders[x].edge = e}) <= 1

(***************************************************************************)
(* SpecShade: tables are added to a new document and shaded.               *)
(***************************************************************************)
ShadeList(rows) ==
    [kind |-> "list", rows |-> rows]

\* format_table calls with a shading: red for cell (0, 0) with a colour the
\* markup cannot carry for (0, 1) and green for (1, 0); blue for (0, 0);
\* yellow for a 3 x 3 block; a shading str that is no JSON
ShadeTableArgs ==
    {TableCall(0, "None", "None", ShadeList(<<<<"FF0000", "<">>, <<"00FF00">>>>)),
     TableCall(0, "None", "None", ShadeList(<<<<"0000FF">>>>)),
     TableCall(0, "None", "None",
               ShadeList([i \in 1..3 |-> [j \in 1..3 |-> "FFFF00"]])),
     TableCall(0, "None", "None", [kind |-> "badjson", rows |-> <<>>])}

NextShade ==
    \/ \E a \in TableArgs : add_table(a, MaxTablesGrid)
    \/ \E a \in ShadeTableArgs : format_table(a)

SpecShade ==
    InitTable /\ [][NextShade]_vars

\* shading entry (i, j) of a call is accepted for the cell rc of the table
Accepted(a, rc) ==
    /\ a.shading.kind = "list"
    /\ rc[1] <= Len(a.shading.rows)
    /\ rc[2] <= Len(a.shading.rows[rc[1]])
    /\ a.shading.rows[rc[1]][rc[2]] \notin Unencodable

\* C17: a successful format_table appends to each cell with an accepted
\* shading entry exactly that one fill descriptor, after the ones the cell
\* had, which stay as they were; a cell without an accepted entry keeps its
\* fill descriptors as they were.
C17_ShadingAccumulates ==
    [][FormatTableOk =>
          LET a == last'.args
              t == doc.tables[a.table_index + 1]
              u == doc'.tables[a.table_index + 1]
          IN  \A rc \in DOMAIN t.cells :
                 u.cells[rc].shd =
                    (IF Accepted(a, rc)
                     THEN t.cells[rc].shd \o <<a.shading.rows[rc[1]][rc[2]]>>
                     ELSE t.cells[rc].shd)]_vars

\* C17 witness: cell (0, 0) was shaded red, then blue: it holds the two fill
\* descriptors in that order; its neighbour (0, 1), whose entry was not
\* accepted, holds none, and (1, 0) holds the green one
C17_Witness ==
    /\ last.op = "format_table" /\ last.result = "ok"
    /\ doc.tables # <<>>
    /\ doc.tables[1].rows = 2 /\ doc.tables[1].cols = 2
    /\ doc.tables[1].cells[<<1, 1>>].shd = <<"FF0000", "0000FF">>
    /\ doc.tables[1].cells[<<1, 2>>].shd = <<>>
    /\ doc.tables[1].cells[<<2, 1>>].shd = <<"00FF00">>

\* C18 (as claimed): what get_table_detailed_info reports as the shading of
\* a shaded cell is the colour applied last.
C18_LastShadingWins ==
    \A n \in 1..Len(doc.tables) : \A rc \in DOMAIN doc.tables[n].cells :
       LET cell == doc.tables[n].cells[rc]
       IN  cell.shd # <<>> => DetailedShading(cell) = cell.shd[Len(cell.shd)]

(***************************************************************************)
(* Properties of add_paragraph, delete_paragraph and                       *)
(* set_paragraph_alignment (SpecBody).                                     *)
(***************************************************************************)
\* an add_paragraph call with a style argument that passed the file checks
StyledParagraphCall ==
    /\ last'.op = "add_paragraph" /\ exists /\ writable
    /\ last'.args.style \notin {"None", ""}

\* the style a name resolves to, by name or identifier, then by either in
\* lower case; 0 when it resolves to none
Resolved(styles, style) ==
    IF StyleIndex(styles, style) # 0 THEN StyleIndex(styles, style)
    ELSE StyleIndexLower(styles, style)

\* exactly one paragraph was appended to the body, with the text of the call
AppendedOne ==
    /\ Len(doc'.paras) = Len(doc.paras) + 1
    /\ SubSeq(doc'.paras, 1, Len(doc.paras)) = doc.paras
    /\ ParaText(doc'.paras[Len(doc'.paras)]) = last'.args.text

\* the appended paragraph carries the style st (the default paragraph style
\* is carried by a paragraph without a style reference)
Carries(st) ==
    doc'.paras[Len(doc'.paras)].style = (IF st.default THEN "" ELSE st.id)

\* the call fell back: one paragraph with the default style, saved, and the
\* result says so
FellBack(result) ==
    /\ last'.result = result /\ last'.saved
    /\ AppendedOne
    /\ doc'.paras[Len(doc'.paras)].style = ""

\* C19 (as claimed): add_paragraph with a style name that does not resolve
\* falls back to Normal, saves and reports it; with a style name that
\* resolves, the appended paragraph carries that style.
C19_StyleFallbackOrCarried ==
    [][StyledParagraphCall =>
          LET c == Resolved(doc.styles, last'.args.style)
          IN  IF c = 0 THEN FellBack("StyleNotFound")
              ELSE /\ last'.result = "ok" /\ last'.saved
                   /\ AppendedOne
                   /\ Carries(doc.styles[c])]_vars

\* C19 (amended): as claimed when the name does not resolve or resolves to a
\* paragraph style; a name that resolves to a style of another type
\* (character, table) also falls back to Normal, saves, and reports the
\* error of applying the style.
C19_StyleFallbackOrCarriedIfParagraph ==
    [][StyledParagraphCall =>
          LET c == Resolved(doc.styles, last'.args.style)
          IN  IF c = 0 THEN FellBack("StyleNotFound")
              ELSE IF doc.styles[c].type # "paragraph" THEN FellBack("StyleError")
              ELSE /\ last'.result = "ok" /\ last'.saved
                   /\ AppendedOne
                   /\ Carries(doc.styles[c])]_vars

\* C19 witness: after a paragraph that carries "Heading 2" (asked for as
\* "heading2"), add_paragraph("dog", style "Table Grid") appended "dog"
\* with the default style and reported the error of applying a table style
C19_Witness ==
    /\ last.op = "add_paragraph" /\ last.result = "StyleError" /\ last.saved
    /\ last.args.style = "Table Grid"
    /\ Len(doc.paras) = 2
    /\ doc.paras[1].style = "Heading2"
    /\ ParaText(doc.paras[2]) = Dog /\ doc.paras[2].style = ""

\* the alignments set_paragraph_alignment knows, in the spellings used
SpelledAlignments ==
    {"left", "center", "right", "justify", "LEFT", "CENTER", "RIGHT", "JUSTIFY"}

\* C20: delete_paragraph and set_paragraph_alignment with an index outside
\* [0, count) are refused as InvalidIndex, and set_paragraph_alignment with
\* a valid index and an alignment that is none of left, center, right,
\* justify is refused as InvalidAlignment; a refused call leaves the
\* document (count, texts, alignments) as it was and does not save.
C20_BodyRefusals ==
    [][(last'.op \in {"delete_paragraph", "set_paragraph_alignment"}
        /\ exists /\ writable) =>
          LET a == last'.args
              outside == a.paragraph_index < 0 \/ a.paragraph_index >= Len(doc.paras)
              unknown == /\ last'.op = "set_paragraph_alignment"
                         /\ a.alignment \notin SpelledAlignments
          IN  /\ outside => last'.result = "InvalidIndex"
              /\ (~outside /\ unknown) => last'.result = "InvalidAlignment"
              /\ (outside \/ unknown) => (doc' = doc /\ ~last'.saved)
              /\ (~outside /\ ~unknown) => last'.result = "ok"]_vars

\* C20 witness: set_paragraph_alignment("middle") on the first paragraph of
\* a document with a centred paragraph was refused
C20_Witness ==
    /\ last.op = "set_paragraph_alignment" /\ last.result = "InvalidAlignment"
    /\ last.args.paragraph_index = 0
    /\ ~last.saved
    /\ Len(doc.paras) >= 1
    /\ doc.paras[1].align = "center"

(***************************************************************************)
(* SpecTableFail: format_table calls that ask for a header row and a       *)
(* border together with an index or a shading that should be refused.      *)
(***************************************************************************)
\* the shading strings: no JSON at all; the JSON number 5; the JSON string
\* "red"
BadJson == [kind |-> "badjson", rows |-> <<>>]
JsonNumber == [kind |-> "jsonnum", rows |-> <<>>]
JsonRed == [kind |-> "jsonstr", rows |-> <<"r", "e", "d">>]

\* format_table calls: a plain border call, then header and border with an
\* index int() refuses, an index out of range, and each shading string
FailTableArgs ==
    {TableCall(0, "None", "single", NoShading),
     [TableCall(0, "'true'", "double", NoShading) EXCEPT !.numeric = FALSE],
     TableCall(-1, "'true'", "double", NoShading),
     TableCall(MaxTablesGrid, "'true'", "double", NoShading),
     TableCall(0, "'true'", "double", BadJson),
     TableCall(0, "'true'", "double", JsonNumber),
     TableCall(0, "'true'", "double", JsonRed)}

NextTableFail ==
    \/ \E a \in TableArgs : add_table(a, MaxTablesGrid)
    \/ \E a \in FailTableArgs : format_table(a)

SpecTableFail ==
    InitTable /\ [][NextTableFail]_vars

\* C21 (as claimed): a format_table call whose table index is no integer or
\* is outside [0, tableCount), or whose shading is a string that does not
\* parse as a 2D array, returns a failure and leaves the saved document as
\* it was: nothing of the header row or the border it asked for is saved.
C21_FormatTableRefusals ==
    [][(last'.op = "format_table" /\ exists /\ writable) =>
          LET a == last'.args
              refused == \/ ~a.numeric
                         \/ a.table_index < 0
                         \/ a.table_index >= Len(doc.tables)
                         \/ a.shading.kind \in {"badjson", "jsonnum", "jsonstr"}
          IN  refused => /\ last'.result # "ok"
                         /\ ~last'.saved
                         /\ doc' = doc]_vars

(***************************************************************************)
(* SpecFile: every tool that changes a document, on a file that is or is   *)
(* not there and is or is not writable.                                    *)
(***************************************************************************)
\* the most paragraphs SpecFile lets a document grow to
MaxParasFile == 2

\* add_picture calls: an image, a missing file, an empty file, a text file
PictureArgs ==
    {[image |-> i, width |-> "None"] : i \in {"image", "missing", "empty", "no image"}}

\* the document of the file at the start, when there is one
FileDoc ==
    [TemplateDoc EXCEPT !.paras = <<NewPara(Cat)>>]

InitFile ==
    /\ exists \in BOOLEAN
    /\ writable \in BOOLEAN
    /\ doc = IF exists THEN FileDoc ELSE NoDoc
    /\ last = NoCall

NextFile ==
    \/ create_document
    \/ \E a \in AllHeadingArgs : add_heading(a, MaxParasFile)
    \/ \E a \in GridParagraphArgs : add_paragraph(a, MaxParasFile)
    \/ \E a \in AllTableArgs : add_table(a, MaxTables)
    \/ \E a \in PictureArgs : add_picture(a, MaxParasFile)
    \/ \E a \in AllFormatArgs : format_text(a)
    \/ \E a \in AllReplaceArgs : search_and_replace(a)
    \/ \E a \in AllDeleteArgs : delete_paragraph(a)
    \/ \E a \in GridStyleArgs : create_custom_style(a)
    \/ \E a \in GridFormatTableArgs : format_table(a)
    \/ add_page_break(MaxParasFile)
    \/ \E a \in AllAlignmentArgs : set_paragraph_alignment(a)

SpecFile ==
    InitFile /\ [][NextFile]_vars

\* the tools that change a document
MutatingOps ==
    {"create_document", "add_heading", "add_paragraph", "add_table", "add_picture",
     "format_text", "search_and_replace", "delete_paragraph", "create_custom_style",
     "format_table", "add_page_break", "set_paragraph_alignment"}

\* the step reaches the writability probe: create_document always does, the
\* other tools when the document is there, add_picture when moreover the
\* image file is there and not empty
ReachesProbe ==
    /\ last'.op \in MutatingOps
    /\ last'.op # "create_document" => exists
    /\ last'.op = "add_picture" => last'.args.image \notin {"missing", "empty"}

\* C22: a call of a mutating tool that reaches the writability probe while
\* the target is not writable returns WriteBlocked, and the file (its
\* document, and whether it exists) is as it was.
C22_WriteBlocked ==
    [][(ReachesProbe /\ ~writable) =>
          /\ last'.result = "WriteBlocked"
          /\ ~last'.saved
          /\ doc' = doc
          /\ exists' = exists]_vars

\* C22 witness: a tool was refused on the unwritable document, which holds
\* its paragraph "cat" as before
C22_Witness ==
    /\ exists /\ ~writable
    /\ last.op = "add_page_break" /\ last.result = "WriteBlocked"
    /\ doc = FileDoc

(***************************************************************************)
(* SpecSave: the tools with a save step that can raise.  doc.save(filename)*)
(* is handed the path of the document itself: the package is written       *)
(* straight into that file, which is opened for writing (and so emptied)   *)
(* before the first part is written.  A save that raises before the file   *)
(* is opened leaves it as it was, one that raises later leaves what had     *)
(* been written so far.                                                    *)
(***************************************************************************)
\* a file that holds the beginning of a package: Document(filename) raises
PartialFile ==
    [paras |-> <<>>, tables |-> <<>>, styles |-> <<>>, partial |-> TRUE]

\* what the file can hold after doc.save(filename) raised
AfterFailedSave(d) ==
    {d, PartialFile}

\* a tool call on a file that is no package: Document(filename) raises and
\* the tool returns its "Failed to ..." message
LoadFails(op, a) ==
    /\ exists /\ writable /\ doc = PartialFile
    /\ last' = [op |-> op, args |-> a, result |-> "failed", ret |-> 0, saved |-> FALSE]
    /\ UNCHANGED <<exists, writable, doc>>

\* a tool call that reaches doc.save(filename), which raises: the tool
\* returns its "Failed to ..." message
SaveFails(op, a, Out(_, _)) ==
    /\ exists /\ writable /\ doc # PartialFile
    /\ Out(doc, a).saved
    /\ last' = [op |-> op, args |-> a, result |-> "SaveFailed", ret |-> 0, saved |-> FALSE]
    /\ doc' \in AfterFailedSave(doc)
    /\ UNCHANGED <<exists, writable>>

format_text_save_fails ==
    /\ exists
    /\ \E a \in AllFormatArgs : SaveFails("format_text", a, FormatTextOut)

search_and_replace_save_fails ==
    /\ exists
    /\ \E a \in AllReplaceArgs : SaveFails("search_and_replace", a, SearchAndReplaceOut)

delete_paragraph_save_fails ==
    /\ exists
    /\ \E a \in AllDeleteArgs : SaveFails("delete_paragraph", a, DeleteParagraphOut)

\* create_document's save raises: the file may have been created
create_document_save_fails ==
    /\ writable
    /\ last' = [op |-> "create_document", args |-> [title |-> "None", author |-> "None"],
                result |-> "SaveFailed", ret |-> 0, saved |-> FALSE]
    /\ \/ UNCHANGED <<exists, doc>>
       \/ exists' = TRUE /\ doc' = PartialFile
    /\ UNCHANGED writable

format_text_load_fails ==
    /\ exists
    /\ \E a \in AllFormatArgs : LoadFails("format_text", a)

search_and_replace_load_fails ==
    /\ exists
    /\ \E a \in AllReplaceArgs : LoadFails("search_and_replace", a)

delete_paragraph_load_fails ==
    /\ exists
    /\ \E a \in AllDeleteArgs : LoadFails("delete_paragraph", a)

\* the tools on a file that Document(filename) can load
format_text_loaded ==
    /\ doc # PartialFile
    /\ \E a \in AllFormatArgs : format_text(a)

search_and_replace_loaded ==
    /\ doc # PartialFile
    /\ \E a \in AllReplaceArgs : search_and_replace(a)

delete_paragraph_loaded ==
    /\ doc # PartialFile
    /\ \E a \in AllDeleteArgs : delete_paragraph(a)

add_paragraph_loaded ==
    /\ doc # PartialFile
    /\ \E a \in GridParagraphArgs : add_paragraph(a, MaxParasFile)

InitSave ==
    /\ exists \in BOOLEAN
    /\ writable = TRUE
    /\ doc = IF exists THEN FileDoc ELSE NoDoc
    /\ last = NoCall

NextSave ==
    \/ create_document
    \/ format_text_loaded
    \/ search_and_replace_loaded
    \/ delete_paragraph_loaded
    \/ add_paragraph_loaded
    \/ format_text_save_fails
    \/ search_and_replace_save_fails
    \/ delete_paragraph_save_fails
    \/ create_document_save_fails
    \/ format_text_load_fails
    \/ search_and_replace_load_fails
    \/ delete_paragraph_load_fails

SpecSave ==
    InitSave /\ [][NextSave]_vars

\* C23: when the save step of a tool fails, the tool reports a failure and
\* the file holds exactly the document it held before the call (and is
\* there only if it was there before); no file is left partially written.
C23_SaveAllOrNothing ==
    [][(last'.result = "SaveFailed") =>
          /\ doc' = doc
          /\ exists' = exists
          /\ doc' # PartialFile]_vars

(***************************************************************************)
(* extract_footnotes_and_endnotes                                          *)
(***************************************************************************)
\* the most notes in a notes part
MaxNotes == 2

\* the text of one w:t element: none for an empty element
TText(t) ==
    IF t = "None" THEN <<>> ELSE t

\* footnote_text += ... over the w:t elements of one w:p
RECURSIVE ParagraphTexts(_)
ParagraphTexts(ts) ==
    IF ts = <<>> THEN <<>> ELSE TText(Head(ts)) \o ParagraphTexts(Tail(ts))

\* ... over the w:p elements of one note
RECURSIVE NoteText(_)
NoteText(ps) ==
    IF ps = <<>> THEN <<>> ELSE ParagraphTexts(Head(ps)) \o NoteText(Tail(ps))

\* if footnote_id and footnote_id not in ('-1', '0')
KeepsNote(id) ==
    id # "None" /\ id # "" /\ id \notin {"-1", "0"}

\* the loop over the note elements of one part, appending to the list
RECURSIVE ExtractPart(_)
ExtractPart(notes) ==
    IF notes = <<>> THEN <<>>
    ELSE (IF KeepsNote(Head(notes).id)
          THEN <<[id |-> Head(notes).id, text |-> NoteText(Head(notes).paras)]>>
          ELSE <<>>) \o ExtractPart(Tail(notes))

\* one try block: the list and the error of one kind.  The part is read
\* only when document_part has the attribute and it is not None
ReadPart(part) ==
    IF part.seen \in {"no attribute", "None"}
    THEN [list |-> <<>>, error |-> "None"]
    ELSE IF part.seen = "raises"
    THEN [list |-> <<>>, error |-> "error"]
    ELSE [list |-> ExtractPart(part.notes), error |-> "None"]

\* one try block around both kinds
ExtractNotesOneTry(d) ==
    IF d.footnotes.seen = "raises" \/ d.endnotes.seen = "raises"
    THEN [footnotes |-> <<>>, endnotes |-> <<>>, footnote_error |-> "None",
          endnote_error |-> "None", error |-> "Failed"]
    ELSE [footnotes |-> ReadPart(d.footnotes).list,
          endnotes |-> ReadPart(d.endnotes).list,
          footnote_error |-> "None", endnote_error |-> "None", error |-> "None"]

\* the result of extract_footnotes_and_endnotes on a loaded document
ExtractNotes(d) ==
    [footnotes |-> ReadPart(d.footnotes).list,
     endnotes |-> ReadPart(d.endnotes).list,
     footnote_error |-> ReadPart(d.footnotes).error,
     endnote_error |-> ReadPart(d.endnotes).error,
     error |-> "None"]

extract_footnotes_and_endnotes ==
    /\ last.op = "none"
    /\ last' = [op |-> "extract_footnotes_and_endnotes", args |-> [none |-> TRUE],
                result |-> IF exists THEN "ok" ELSE "NotFound",
                ret |-> IF exists THEN ExtractNotes(doc)
                        ELSE [footnotes |-> <<>>, endnotes |-> <<>>,
                              footnote_error |-> "None", endnote_error |-> "None",
                              error |-> "NotFound"],
                saved |-> FALSE]
    /\ UNCHANGED <<exists, writable, doc>>

(***************************************************************************)
(* SpecNotes: notes extraction over documents with bounded notes parts.    *)
(***************************************************************************)
\* the w:id attribute of a note: missing, empty, reserved, ordinary
NoteIds ==
    {"None", "", "-1", "0", "1", "2"}

\* the paragraphs of a note: none, or two with an empty w:t in the second
NoteBodies ==
    {<< >>, << <<Cat>>, <<"None", Dog>> >>}

NoteElements ==
    [id : NoteIds, paras : NoteBodies]

\* the sequences of at most n notes
RECURSIVE NoteSeqs(_)
NoteSeqs(n) ==
    IF n = 0 THEN {<< >>}
    ELSE NoteSeqs(n - 1) \cup
         {Append(ns, e) : ns \in {x \in NoteSeqs(n - 1) : Len(x) = n - 1},
                          e \in NoteElements}

\* a part the document part hands over
ReadableParts ==
    {[seen |-> "part", notes |-> ns] : ns \in NoteSeqs(MaxNotes)}

\* the other ways a kind can be: no part in the package; a part whose
\* reading raises; a part in the package that document_part has no
\* attribute for
OtherParts ==
    {[seen |-> "None", notes |-> << >>],
     [seen |-> "raises", notes |-> <<[id |-> "1", paras |-> << <<Cat>> >>]>>],
     [seen |-> "no attribute", notes |-> << >>],
     [seen |-> "no attribute", notes |-> <<[id |-> "1", paras |-> << <<Cat>> >>]>>],
     [seen |-> "part", notes |-> <<[id |-> "2", paras |-> << <<Dog>> >>]>>]}

InitNotes ==
    /\ exists \in BOOLEAN
    /\ writable = TRUE
    /\ last = NoCall
    /\ \E one \in ReadableParts \cup OtherParts, other \in OtherParts, swap \in BOOLEAN :
          doc = IF ~exists THEN NoDoc
                ELSE [paras |-> <<>>, tables |-> <<>>, styles |-> <<>>,
                      footnotes |-> IF swap THEN other ELSE one,
                      endnotes |-> IF swap THEN one ELSE other]

NextNotes ==
    extract_footnotes_and_endnotes

SpecNotes ==
    InitNotes /\ [][NextNotes]_vars

\* the entries the notes of a part call for: every note but those with a
\* reserved or missing identifier, in part order, each with its text
ClaimedNotes(notes) ==
    LET kept == SelectSeq(notes, LAMBDA n : n.id \notin {"None", "", "-1", "0"})
    IN  [i \in 1..Len(kept) |-> [id |-> kept[i].id, text |-> NoteText(kept[i].paras)]]

\* no entry of the list has a reserved or missing identifier
NoReserved(list) ==
    \A i \in 1..Len(list) : list[i].id \notin {"None", "", "-1", "0"}

Extracted ==
    last.op = "extract_footnotes_and_endnotes" /\ exists

\* C24: the lists returned hold no entry with identifier -1 or 0 or none,
\* and, for a kind whose part is read without failure, exactly the other
\* notes of the package's part of that kind, once each, in part order, with
\* the concatenated text of their text runs.
C24_NotesExtracted ==
    Extracted =>
        /\ NoReserved(last.ret.footnotes) /\ NoReserved(last.ret.endnotes)
        /\ doc.footnotes.seen # "raises" =>
               last.ret.footnotes = ClaimedNotes(doc.footnotes.notes)
        /\ doc.endnotes.seen # "raises" =>
               last.ret.endnotes = ClaimedNotes(doc.endnotes.notes)

\* the package has no part of the kind
MissingPart(part) ==
    part.seen \in {"None", "no attribute"} /\ part.notes = << >>

\* C25: a kind with no part in the package gets an empty list and no error
\* field; a failure reading one kind sets that kind's error field, leaves
\* the other kind's list complete and its error field unset, and the result
\* as a whole is no failure.
C25_KindsIsolated ==
    Extracted =>
        /\ last.ret.error = "None"
        /\ MissingPart(doc.footnotes) =>
               last.ret.footnotes = << >> /\ last.ret.footnote_error = "None"
        /\ MissingPart(doc.endnotes) =>
               last.ret.endnotes = << >> /\ last.ret.endnote_error = "None"
        /\ doc.footnotes.seen = "raises" => last.ret.footnote_error # "None"
        /\ doc.endnotes.seen = "raises" => last.ret.endnote_error # "None"
        /\ doc.footnotes.seen = "part" =>
               /\ last.ret.footnotes = ClaimedNotes(doc.footnotes.notes)
               /\ last.ret.footnote_error = "None"
        /\ doc.endnotes.seen = "part" =>
               /\ last.ret.endnotes = ClaimedNotes(doc.endnotes.notes)
               /\ last.ret.endnote_error = "None"

\* C25 witness: reading the footnotes failed, the endnote "dog" is returned
C25_Witness ==
    /\ Extracted
    /\ doc.footnotes.seen = "raises" /\ last.ret.footnote_error = "error"
    /\ last.ret.endnotes = <<[id |-> "2", text |-> Dog]>>

(***************************************************************************)
(* format_text, called again on a paragraph it has formatted.              *)
(***************************************************************************)
\* the number of characters of the paragraph before its j-th run
RunStart(rs, j) ==
    Len(JoinRuns(SubSeq(rs, 1, j - 1)))

\* C26: after a successful format_text(p, s, e, attrs), whatever calls came
\* before, a run of paragraph p that has text and carries direct formatting
\* is the run of the characters [s, e) with the formatting of this call; the
\* formatting of earlier calls is carried by no run with text.
C26_FormatResetsOutside ==
    [][FormatTextOk =>
          LET a == last'.args
              rs == doc'.paras[a.paragraph_index + 1].runs
          IN  \A j \in 1..Len(rs) :
                 (rs[j].text # <<>> /\ rs[j].fmt # NoFmt) =>
                    /\ RunStart(rs, j) = a.start_pos
                    /\ Len(rs[j].text) = a.end_pos - a.start_pos
                    /\ rs[j].fmt = TargetFmt(a.attrs)]_vars

\* C26 witness: characters [0, 2) were made red italic, then characters
\* [4, 9) bold: the red italic run is still there, empty, and "Th" is in a
\* run without formatting
C26_Witness ==
    /\ last.op = "format_text" /\ last.result = "ok"
    /\ last.args.start_pos = 4 /\ last.args.end_pos = 9
    /\ LET rs == doc.paras[1].runs
       IN  /\ \E j \in 1..Len(rs) :
                 rs[j].text = <<>> /\ rs[j].fmt = TargetFmt(RedItalicAttrs)
           /\ \E j \in 1..Len(rs) :
                 rs[j].text = Slice(Fox, 0, 4) /\ rs[j].fmt = NoFmt
           /\ \E j \in 1..Len(rs) :
                 rs[j].text = Slice(Fox, 4, 9) /\ rs[j].fmt = TargetFmt(BoldAttrs)

(***************************************************************************)
(* SpecReplace: search_and_replace, called again and again, on paragraphs  *)
(* over the letters a and b.                                               *)
(***************************************************************************)
\* the most characters of a paragraph at the start
MaxWord == 3

\* the texts of 1..n letters a and b
RECURSIVE Words(_)
Words(n) ==
    IF n = 0 THEN {}
    ELSE {<<c>> : c \in {"a", "b"}}
         \cup {Append(w, c) : w \in Words(n - 1), c \in {"a", "b"}}

\* the (find_text, replace_text) pairs: none of the replace_text contains
\* its find_text
WordReplaceArgs ==
    {[find_text |-> <<"a">>, replace_text |-> <<"b">>],
     [find_text |-> <<"a", "b">>, replace_text |-> <<"b">>],
     [find_text |-> <<"a", "a">>, replace_text |-> <<"a">>],
     [find_text |-> <<"a", "b">>, replace_text |-> << >>],
     [find_text |-> <<"b", "a">>, replace_text |-> <<"c">>],
     [find_text |-> <<"b">>, replace_text |-> <<"c", "c">>]}

InitReplace ==
    /\ exists = TRUE
    /\ writable = TRUE
    /\ \E w \in Words(MaxWord) : doc = [TemplateDoc EXCEPT !.paras = <<NewPara(w)>>]
    /\ last = NoCall

NextReplace ==
    \E a \in WordReplaceArgs : search_and_replace(a)

SpecReplace ==
    InitReplace /\ [][NextReplace]_vars

\* no run of d contains old
NoRunContains(d, old) ==
    \A pl \in Places(d) : ~Contains(RunAt(d, pl).text, old)

\* the same call again returns 0 and changes nothing
RepeatIsNoop(d, a) ==
    /\ SearchAndReplaceOut(d, a).ret = 0
    /\ SearchAndReplaceOut(d, a).doc = d
    /\ ~SearchAndReplaceOut(d, a).saved

\* the letters of a text
Letters(w) ==
    {w[i] : i \in 1..Len(w)}

\* C27 (as claimed): for a non-empty old and a new that does not contain
\* old, after search_and_replace(old, new) no run contains old, and the same
\* call again returns 0 and changes nothing.
C27_ReplaceThenNone ==
    [][(ReplaceCall /\ last'.args.find_text # << >>
        /\ ~Contains(last'.args.replace_text, last'.args.find_text)) =>
          /\ NoRunContains(doc', last'.args.find_text)
          /\ RepeatIsNoop(doc', last'.args)]_vars

\* C27 (amended): for a non-empty old and a non-empty new that has no letter
\* in common with old, after search_and_replace(old, new) no run contains
\* old, and the same call again returns 0 and changes nothing.
C27_ReplaceThenNoneIfDisjoint ==
    [][(ReplaceCall /\ last'.args.find_text # << >>
        /\ last'.args.replace_text # << >>
        /\ Letters(last'.args.replace_text) \cap Letters(last'.args.find_text) = {}) =>
          /\ NoRunContains(doc', last'.args.find_text)
          /\ RepeatIsNoop(doc', last'.args)]_vars

\* C27 witness: "a" was replaced by "b" in "aab", which now reads "bbb"
C27_Witness ==
    /\ last.op = "search_and_replace" /\ last.result = "ok"
    /\ last.args.find_text = <<"a">> /\ last.args.replace_text = <<"b">>
    /\ last.ret = 1
    /\ doc.paras[1].runs[1].text = <<"b", "b", "b">>

(***************************************************************************)
(* add_paragraph: the alignment of the appended paragraph.                 *)
(***************************************************************************)
\* the step is an add_paragraph call that saved the document
ParagraphSaved ==
    last'.op = "add_paragraph" /\ exists /\ writable /\ last'.saved

\* C28: the paragraph add_paragraph appends carries the requested alignment
\* when that is one of left, center, right, justify and the style argument
\* is absent or resolves to a style the paragraph can carry; when the call
\* falls back to the default style, the paragraph carries the default style
\* and no alignment, whatever alignment was asked for.
C28_AlignmentOnlyWithStyle ==
    [][ParagraphSaved =>
          LET a == last'.args
              p == doc'.paras[Len(doc'.paras)]
              c == Resolved(doc.styles, a.style)
              fallsBack == /\ a.style \notin {"None", ""}
                           /\ (c = 0 \/ doc.styles[IF c = 0 THEN 1 ELSE c].type # "paragraph")
          IN  /\ AppendedOne
              /\ fallsBack <=> last'.result \in {"StyleNotFound", "StyleError"}
              /\ fallsBack => p.style = "" /\ p.align = "None"
              /\ ~fallsBack =>
                    p.align = (IF a.alignment \in {"left", "center", "right", "justify"}
                               THEN a.alignment ELSE "None")]_vars

\* C28 witness: add_paragraph("cat", style "Nope", alignment "right")
\* appended "cat" with the default style and without alignment, after a call
\* with a style that resolves had appended a centred paragraph
C28_Witness ==
    /\ last.op = "add_paragraph" /\ last.result = "StyleNotFound" /\ last.saved
    /\ last.args.alignment = "right"
    /\ Len(doc.paras) = 2
    /\ doc.paras[1].align = "center" /\ doc.paras[1].style = "Heading1"
    /\ doc.paras[2].align = "None" /\ doc.paras[2].style = ""

(***************************************************************************)
(* create_document on a path that holds a document.                        *)
(***************************************************************************)
\* C29: create_document on a path where a writable document exists succeeds
\* and leaves the file holding a new empty document: no paragraph, no table
\* and no custom style, whatever the document held before.
C29_CreateReplaces ==
    [][(last'.op = "create_document" /\ exists /\ writable) =>
          /\ last'.result = "ok" /\ last'.saved
          /\ exists'
          /\ doc'.paras = << >> /\ doc'.tables = << >>
          /\ \A i \in 1..Len(doc'.styles) : ~doc'.styles[i].custom
          /\ doc' = EnsureHeadingStyle(TemplateDoc)]_vars

\* C29 witness: create_document succeeded on the writable path and the file
\* holds the empty document of the template
C29_Witness ==
    /\ last.op = "create_document" /\ last.result = "ok"
    /\ exists /\ writable
    /\ doc.paras = << >> /\ doc.tables = << >>
    /\ \A i \in 1..Len(doc.styles) : ~doc.styles[i].custom

(***************************************************************************)
(* SpecMissing: every tool on a path that holds no document at the start.  *)
(***************************************************************************)
InitMissing ==
    /\ exists = FALSE
    /\ writable \in BOOLEAN
    /\ doc = NoDoc
    /\ last = NoCall

NextMissing ==
    \/ create_document
    \/ \E a \in AllHeadingArgs : add_heading(a, MaxParasAll)
    \/ \E a \in GridParagraphArgs : add_paragraph(a, MaxParasAll)
    \/ \E a \in AllTableArgs : add_table(a, MaxTables)
    \/ \E a \in PictureArgs : add_picture(a, MaxParasAll)
    \/ \E a \in AllFormatArgs : format_text(a)
    \/ \E a \in AllReplaceArgs : search_and_replace(a)
    \/ \E a \in AllDeleteArgs : delete_paragraph(a)
    \/ \E a \in GridStyleArgs : create_custom_style(a)
    \/ \E a \in GridFormatTableArgs : format_table(a)
    \/ add_page_break(MaxParasAll)
    \/ \E a \in AllAlignmentArgs : set_paragraph_alignment(a)
    \/ \E op \in ReadOps : read_document(op)
    \/ copy_document

SpecMissing ==
    InitMissing /\ [][NextMissing]_vars

\* C30: a call of any tool but create_document on a path that holds no
\* document returns the not-found failure and saves nothing: the path still
\* holds no document afterwards; only create_document brings a document
\* into existence.
C30_NotFoundCreatesNothing ==
    [][/\ (~exists /\ last'.op # "create_document") =>
             /\ last'.result = "NotFound"
             /\ ~last'.saved
             /\ ~exists'
             /\ doc' = doc
       /\ (~exists /\ exists') => last'.op = "create_document"]_vars

\* C30 witness: add_picture with an image file that is there was refused on
\* a path that holds no document, in a directory that can be written to
C30_Witness ==
    /\ ~exists /\ writable
    /\ last.op = "add_picture" /\ last.args.image = "image"
    /\ last.result = "NotFound"
    /\ doc = NoDoc

====
